---------------------------- MODULE Spec2Model ----------------------------
(***************************************************************************)
(* Model of the nearby-school-data-extractor: the response normalizer of   *)
(* services/geminiService.ts (fence stripping, stray-token repair, JSON    *)
(* parse, shape check, per-item mapping in its three variants) as a state  *)
(* machine around one fetchSchoolsNearAddress call.                        *)
(*                                                                         *)
(* A text is a sequence of characters.  An ASCII character is a one-letter *)
(* TLA+ string; a non-ASCII code point is written "U+XXXX" (six letters).  *)
(* The fence of the regular expressions is written FENCE below where the   *)
(* source has three grave accents.                                         *)
(***************************************************************************)
EXTENDS Integers, Sequences, FiniteSets, TLC

-----------------------------------------------------------------------------
(* Characters and the character classes the regular expressions use.       *)

Digit == {"0", "1", "2", "3", "4", "5", "6", "7", "8", "9"}

Letter ==
  {"a", "b", "c", "d", "e", "f", "g", "h", "i", "j", "k", "l", "m",
   "n", "o", "p", "q", "r", "s", "t", "u", "v", "w", "x", "y", "z",
   "A", "B", "C", "D", "E", "F", "G", "H", "I", "J", "K", "L", "M",
   "N", "O", "P", "Q", "R", "S", "T", "U", "V", "W", "X", "Y", "Z"}

\* \w of the regular expressions (used by \b).
WordChar == Letter \cup Digit \cup {"_"}

\* [^\x00-\x7F]
IsNonAscii(c) == Len(c) = 6

\* \s of a JavaScript regular expression, and what String.prototype.trim
\* removes: the ASCII white space and the Unicode space separators and line
\* terminators (U+00A0, U+FEFF, U+2028, U+2029 among them).
JsSpace ==
  {" ", "\t", "\n", "\r", "\f", "VT", "U+00A0", "U+FEFF", "U+2028", "U+2029"}

\* What . does not match without the s flag.
LineTerminator == {"\n", "\r", "U+2028", "U+2029"}

\* The structural characters of the lookahead (?=[,}\]]).
Structural == {",", "}", "]"}

\* The white space JSON.parse skips between tokens.
JsonSpace == {" ", "\t", "\n", "\r"}

At(s, i) == IF i >= 1 /\ i <= Len(s) THEN s[i] ELSE ""

\* s has the characters of p at positions i, i+1, ...
HasAt(s, i, p) ==
  /\ i >= 1
  /\ i + Len(p) - 1 <= Len(s)
  /\ \A k \in 1..Len(p) : s[i + k - 1] = p[k]

\* The number of consecutive characters of class C from position i on.
Run(s, i, C) ==
  IF i < 1 \/ i > Len(s) THEN 0
  ELSE (CHOOSE j \in i..(Len(s) + 1) :
          /\ j > Len(s) \/ s[j] \notin C
          /\ \A k \in i..(j - 1) : s[k] \in C) - i

NonAsciiRun(s, i) ==
  IF i < 1 \/ i > Len(s) THEN 0
  ELSE (CHOOSE j \in i..(Len(s) + 1) :
          /\ j > Len(s) \/ ~ IsNonAscii(s[j])
          /\ \A k \in i..(j - 1) : IsNonAscii(s[k])) - i

\* The number of consecutive white-space characters from position i back.
TrailingSpace(s, i) ==
  i - (CHOOSE j \in 0..i :
         /\ j = 0 \/ s[j] \notin JsSpace
         /\ \A k \in (j + 1)..i : s[k] \in JsSpace)

\* String.prototype.trim
Trim(s) ==
  LET a == Run(s, 1, JsSpace)
  IN  IF a = Len(s) THEN <<>>
      ELSE SubSeq(s, a + 1, Len(s) - TrailingSpace(s, Len(s)))

Max(S) == CHOOSE m \in S : \A n \in S : n <= m
Min(S) == CHOOSE m \in S : \A n \in S : m <= n

-----------------------------------------------------------------------------
(* Step 1 of parseJsonFromGeminiResponse: the Markdown fence.              *)

\* The grave accent (U+0060), which a TLA+ string cannot hold, by name.
BACKTICK == "GRAVE"
BACKTICKS == <<BACKTICK, BACKTICK, BACKTICK>>
JSON_TAG == <<"j", "s", "o", "n">>

\* The match of a fence pattern in which the json tag is not optional.
FenceMatchTagged(s) ==
  IF ~ (Len(s) >= 10 /\ HasAt(s, 1, BACKTICKS \o JSON_TAG) /\ HasAt(s, Len(s) - 2, BACKTICKS))
  THEN [matched |-> FALSE, group |-> <<>>]
  ELSE LET body  == SubSeq(s, 1, Len(s) - 3)
           start == 8 + Run(body, 8, JsSpace)
           stop  == Len(body) - TrailingSpace(body, Len(body))
       IN  [matched |-> TRUE,
            group   |-> IF start > stop THEN <<>> ELSE SubSeq(body, start, stop)]

\* jsonStr.match(/^FENCE(?:json)?\s*\n?(.*?)\n?\s*FENCE$/s): whether it matches
\* and its group 1.  The optional tag and the first \s* are greedy, so the
\* group starts after the tag (when it is there) and all the white space
\* that follows; the group is lazy, so it ends where only white space is
\* left before the closing fence.
FenceMatch(s) ==
  IF ~ (Len(s) >= 6 /\ HasAt(s, 1, BACKTICKS) /\ HasAt(s, Len(s) - 2, BACKTICKS))
  THEN [matched |-> FALSE, group |-> <<>>]
  ELSE LET body  == SubSeq(s, 1, Len(s) - 3)
           tag   == IF HasAt(body, 4, JSON_TAG) THEN 4 ELSE 0
           start == 4 + tag + Run(body, 4 + tag, JsSpace)
           stop  == Len(body) - TrailingSpace(body, Len(body))
       IN  [matched |-> TRUE,
            group   |-> IF start > stop THEN <<>> ELSE SubSeq(body, start, stop)]

\* if (fenceMatch && fenceMatch[1]) jsonStr = fenceMatch[1].trim();
StripFence(s) ==
  LET m == FenceMatch(s)
  IN  IF m.matched /\ m.group # <<>> THEN Trim(m.group) ELSE s

-----------------------------------------------------------------------------
(* Step 2: the stray-token repair, one global replace per pass.            *)

KW_TRUE == <<"t", "r", "u", "e">>
KW_FALSE == <<"f", "a", "l", "s", "e">>
KW_NULL == <<"n", "u", "l", "l">>

\* \b between positions i-1 and i.
WordBoundary(s, i) == (At(s, i - 1) \in WordChar) # (At(s, i) \in WordChar)

\* \b(?:true|false|null)\b at i: the positions after the keyword.
KeywordEnds(s, i) ==
  {i + Len(k) : k \in {w \in {KW_TRUE, KW_FALSE, KW_NULL} :
                         /\ HasAt(s, i, w)
                         /\ WordBoundary(s, i)
                         /\ WordBoundary(s, i + Len(w))}}

\* \d+(?:\.\d+)?(?:[eE][+-]?\d+)? at i: every position the token can end
\* before, over all the ways the quantifiers can backtrack.
NumberEnds(s, i) ==
  LET ints  == {i + d : d \in 1..Run(s, i, Digit)}
      fracs == UNION {{q + 1 + f : f \in 1..Run(s, q + 1, Digit)} :
                        q \in {x \in ints : At(s, x) = "."}}
      mants == ints \cup fracs
      sign(q) == IF At(s, q + 1) \in {"+", "-"} THEN {0, 1} ELSE {0}
      exps  == UNION {UNION {{q + 1 + g + x : x \in 1..Run(s, q + 1 + g, Digit)} :
                               g \in sign(q)} :
                        q \in {x \in mants : At(s, x) \in {"e", "E"}}}
  IN  mants \cup exps

\* Whether the character at j, in a string literal whose opening quote is at
\* i, is the second character of a backslash escape: an odd number of
\* backslashes stands right before it.
Escaped(s, i, j) ==
  LET b == CHOOSE k \in i..(j - 1) :
             /\ k = i \/ s[k] # "\\"
             /\ \A n \in (k + 1)..(j - 1) : s[n] = "\\"
  IN  (j - 1 - b) % 2 = 1

\* The closing quote of the string literal whose opening quote is at i: the
\* first quote after i that no backslash escapes, or 0.
ClosingQuote(s, i) ==
  LET Closes(j) == s[j] = "\"" /\ ~ Escaped(s, i, j)
  IN  IF \E j \in (i + 1)..Len(s) : Closes(j)
      THEN CHOOSE j \in (i + 1)..Len(s) :
             Closes(j) /\ \A k \in (i + 1)..(j - 1) : ~ Closes(k)
      ELSE 0

\* "(?:\\.|[^"\\])*" with the opening quote at i: the position after the
\* closing quote; no match when a backslash escapes a line terminator.
StringEnds(s, i) ==
  LET c == ClosingQuote(s, i)
  IN  IF /\ At(s, i) = "\""
         /\ c # 0
         /\ \A j \in (i + 1)..(c - 1) :
              s[j] \in LineTerminator => ~ Escaped(s, i, j)
      THEN {c + 1} ELSE {}

\* Group 1 of the repair expression at i: the positions after the token.
TokenEnds(s, i) == KeywordEnds(s, i) \cup NumberEnds(s, i) \cup StringEnds(s, i)

\* ([^\x00-\x7F]+)\s*(?=[,}\]]) from q: the positions r after the non-ASCII
\* run for which only white space separates r from a structural character.
StrayEnds(s, q) ==
  {r \in (q + 1)..(q + NonAsciiRun(s, q)) : At(s, r + Run(s, r, JsSpace)) \in Structural}

\* \s*([^\x00-\x7F]+)\s*(?=[,}\]]) from p, the token's end: the end of the
\* match the backtracking search finds first (every quantifier greedy), or 0.
TailFrom(s, qs) ==
  IF qs = {} THEN 0
  ELSE Max(StrayEnds(s, Max(qs))) + Run(s, Max(StrayEnds(s, Max(qs))), JsSpace)

TailEnd(s, p) == TailFrom(s, {q \in p..(p + Run(s, p, JsSpace)) : StrayEnds(s, q) # {}})

\* The match of the whole expression at i: [p: after the token, e: after the
\* match], or p = 0 when it does not match at i.
MatchWith(s, ps) ==
  IF ps = {} THEN [p |-> 0, e |-> 0] ELSE [p |-> Max(ps), e |-> TailEnd(s, Max(ps))]

MatchAt(s, i) == MatchWith(s, {p \in TokenEnds(s, i) : TailEnd(s, p) # 0})

\* jsonStr.replace(/.../g, '$1') from position i on, M being the positions
\* the expression matches at: the scan takes the first match at or after i,
\* keeps its group 1 and goes on after the match.
RECURSIVE ReplaceFrom(_, _, _)

ReplaceMatch(s, i, M, m) == SubSeq(s, i, m.p - 1) \o ReplaceFrom(s, m.e, M)

ReplaceLater(s, i, M, later) ==
  IF later = {} THEN SubSeq(s, i, Len(s))
  ELSE ReplaceMatch(s, i, M, MatchAt(s, Min(later)))

ReplaceFrom(s, i, M) == ReplaceLater(s, i, M, {j \in M : j >= i})

ReplacePass(s) ==
  ReplaceFrom(s, 1, {j \in 1..Len(s) : MatchAt(s, j).p # 0})

\* do { prev = jsonStr; jsonStr = jsonStr.replace(...) } while (prev !== jsonStr)
\* A repair that makes one pass and does not loop.
RepairOnce(s) == ReplacePass(s)

RECURSIVE Repair(_)

\* t is the text after a pass over prev.
RepairLoop(prev, t) == IF prev # t THEN Repair(t) ELSE t

Repair(s) == RepairLoop(s, ReplacePass(s))

\* The text handed to JSON.parse.
Cleaned(responseText) == Repair(StripFence(Trim(responseText)))

-----------------------------------------------------------------------------
(* Step 3: JSON.parse.  The values it builds, and the undefined a property *)
(* read gives for a missing key.                                           *)

JUndefined == [t |-> "undefined"]
JNull == [t |-> "null"]
JBool(b) == [t |-> "bool", b |-> b]
\* A number is m * 10^e with m not a multiple of 10 (0 is m = 0, e = 0): the
\* decimal value of the literal.  The rounding of a double is left out.
JNum(m, e) == [t |-> "num", m |-> m, e |-> e]
JStr(s) == [t |-> "str", s |-> s]
JArr(a) == [t |-> "arr", a |-> a]
\* An object is the sequence of its [k, v] members in text order; a read
\* takes the last member of a key, as a repeated key overwrites.
JObj(kv) == [t |-> "obj", kv |-> kv]

DIGITS == <<"0", "1", "2", "3", "4", "5", "6", "7", "8", "9">>
HEX_LOWER == DIGITS \o <<"a", "b", "c", "d", "e", "f">>
HEX_UPPER == DIGITS \o <<"A", "B", "C", "D", "E", "F">>
HexDigit == {HEX_LOWER[k] : k \in 1..16} \cup {HEX_UPPER[k] : k \in 1..16}

\* The characters U+0000 .. U+007F by code point (index = code point + 1); a
\* control character without a TLA+ escape goes by its name.
ASCII_TABLE ==
  <<"NUL", "SOH", "STX", "ETX", "EOT", "ENQ", "ACK", "BEL",
   "BS", "\t", "\n", "VT", "\f", "\r", "SO", "SI",
   "DLE", "DC1", "DC2", "DC3", "DC4", "NAK", "SYN", "ETB",
   "CAN", "EM", "SUB", "ESC", "FS", "GS", "RS", "US",
   " ", "!", "\"", "#", "$", "%", "&", "'",
   "(", ")", "*", "+", ",", "-", ".", "/",
   "0", "1", "2", "3", "4", "5", "6", "7",
   "8", "9", ":", ";", "<", "=", ">", "?",
   "@", "A", "B", "C", "D", "E", "F", "G",
   "H", "I", "J", "K", "L", "M", "N", "O",
   "P", "Q", "R", "S", "T", "U", "V", "W",
   "X", "Y", "Z", "[", "\\", "]", "^", "_",
   "GRAVE", "a", "b", "c", "d", "e", "f", "g",
   "h", "i", "j", "k", "l", "m", "n", "o",
   "p", "q", "r", "s", "t", "u", "v", "w",
   "x", "y", "z", "{", "|", "}", "~", "DEL">>

DigitVal(c) == (CHOOSE k \in 1..10 : DIGITS[k] = c) - 1
HexVal(c) == (CHOOSE k \in 1..16 : HEX_LOWER[k] = c \/ HEX_UPPER[k] = c) - 1

\* The character of a \uXXXX escape.
CodeUnit(h1, h2, h3, h4) ==
  IF HexVal(h1) = 0 /\ HexVal(h2) = 0 /\ HexVal(h3) < 8
  THEN ASCII_TABLE[HexVal(h3) * 16 + HexVal(h4) + 1]
  ELSE "U+" \o HEX_UPPER[HexVal(h1) + 1] \o HEX_UPPER[HexVal(h2) + 1]
            \o HEX_UPPER[HexVal(h3) + 1] \o HEX_UPPER[HexVal(h4) + 1]

\* U+0000 .. U+001F, which a JSON string may not hold unescaped.
ControlChar == {ASCII_TABLE[k] : k \in 1..32}

\* The single-character escapes of a JSON string.
EscapeOf(c) ==
  CASE c = "\"" -> "\""
    [] c = "\\" -> "\\"
    [] c = "/" -> "/"
    [] c = "b" -> "BS"
    [] c = "f" -> "\f"
    [] c = "n" -> "\n"
    [] c = "r" -> "\r"
    [] c = "t" -> "\t"
    [] OTHER -> ""

ParseFail == [ok |-> FALSE, v |-> JUndefined, p |-> 0]
Parsed(v, p) == [ok |-> TRUE, v |-> v, p |-> p]

SkipSpace(s, i) == i + Run(s, i, JsonSpace)

\* The characters s[a .. b] of a string literal, decoded: [ok, s].  Text
\* without a backslash stands for itself; an escape is decoded and the rest
\* follows.
RECURSIVE DecodeChars(_, _, _)

\* The escape whose backslash is at j: [ok, n: its length, c: its character].
EscapeAt(s, j, b) ==
  IF At(s, j + 1) = "u"
  THEN IF j + 5 <= b /\ \A k \in 2..5 : s[j + k] \in HexDigit
       THEN [ok |-> TRUE, n |-> 6, c |-> CodeUnit(s[j + 2], s[j + 3], s[j + 4], s[j + 5])]
       ELSE [ok |-> FALSE, n |-> 0, c |-> ""]
  ELSE IF j + 1 <= b /\ EscapeOf(s[j + 1]) # ""
       THEN [ok |-> TRUE, n |-> 2, c |-> EscapeOf(s[j + 1])]
       ELSE [ok |-> FALSE, n |-> 0, c |-> ""]

DecodedWith(plain, c, tail) ==
  IF tail.ok THEN [ok |-> TRUE, s |-> plain \o <<c>> \o tail.s]
  ELSE [ok |-> FALSE, s |-> <<>>]

DecodeEscape(s, a, j, b, esc) ==
  IF esc.ok THEN DecodedWith(SubSeq(s, a, j - 1), esc.c, DecodeChars(s, j + esc.n, b))
  ELSE [ok |-> FALSE, s |-> <<>>]

\* j is the first backslash of s[a .. b], or b + 1.
DecodeFrom(s, a, j, b) ==
  IF j > b THEN [ok |-> TRUE, s |-> SubSeq(s, a, b)]
  ELSE DecodeEscape(s, a, j, b, EscapeAt(s, j, b))

\* The first backslash of s[a .. b], or b + 1.
NextEscape(s, a, b) ==
  CHOOSE j \in a..(b + 1) :
    /\ j > b \/ s[j] = "\\"
    /\ \A k \in a..(j - 1) : s[k] # "\\"

DecodeChars(s, a, b) == DecodeFrom(s, a, NextEscape(s, a, b), b)

\* The string literal whose opening quote is at i.
StringBody(d, c) == IF d.ok THEN Parsed(JStr(d.s), c + 1) ELSE ParseFail

\* c is the closing quote of the literal whose opening quote is at i.
StringUpTo(s, i, c) ==
  IF c = 0 \/ (\E j \in (i + 1)..(c - 1) : s[j] \in ControlChar) THEN ParseFail
  ELSE StringBody(DecodeChars(s, i + 1, c - 1), c)

ParseString(s, i) == StringUpTo(s, i, ClosingQuote(s, i))

\* The value of the digits s[a .. b].
RECURSIVE DigitsVal(_, _, _)
DigitsVal(s, a, b) ==
  IF a > b THEN 0 ELSE DigitsVal(s, a, b - 1) * 10 + DigitVal(s[b])

RECURSIVE Pow10(_)
Pow10(n) == IF n <= 0 THEN 1 ELSE 10 * Pow10(n - 1)

RECURSIVE Normal(_, _)
Normal(m, e) ==
  IF m = 0 THEN JNum(0, 0)
  ELSE IF m % 10 = 0 THEN Normal(m \div 10, e + 1)
  ELSE JNum(m, e)

\* -? (0 | [1-9][0-9]*) (. [0-9]+)? ([eE] [+-]? [0-9]+)?
ParseNumber(s, i) ==
  LET neg  == IF At(s, i) = "-" THEN 1 ELSE 0
      a    == i + neg
      nInt == IF At(s, a) = "0" THEN 1 ELSE Run(s, a, Digit)
      b    == a + nInt
      dot  == At(s, b) = "."
      nFr  == IF dot THEN Run(s, b + 1, Digit) ELSE 0
      c    == IF dot THEN b + 1 + nFr ELSE b
      ex   == At(s, c) \in {"e", "E"}
      sg   == IF ex /\ At(s, c + 1) \in {"+", "-"} THEN 1 ELSE 0
      nEx  == IF ex THEN Run(s, c + 1 + sg, Digit) ELSE 0
      d    == IF ex THEN c + 1 + sg + nEx ELSE c
      mant == DigitsVal(s, a, b - 1) * Pow10(nFr) + DigitsVal(s, b + 1, b + nFr)
      expo == DigitsVal(s, c + 1 + sg, d - 1)
      e    == (IF At(s, c + 1) = "-" THEN 0 - expo ELSE expo) - nFr
  IN  IF nInt = 0 \/ (dot /\ nFr = 0) \/ (ex /\ nEx = 0) THEN ParseFail
      ELSE LET n == Normal(IF neg = 1 THEN 0 - mant ELSE mant, e)
           IN  Parsed(n, d)

RECURSIVE ParseValue(_, _)
RECURSIVE ParseElements(_, _, _)
RECURSIVE ParseMembers(_, _, _)

\* After an element of an array, at j: a comma and the next element, or the
\* closing bracket.
ElementSeparator(s, j, acc) ==
  IF At(s, j) = "," THEN ParseElements(s, SkipSpace(s, j + 1), acc)
  ELSE IF At(s, j) = "]" THEN Parsed(JArr(acc), j + 1)
  ELSE ParseFail

AfterElement(s, r, acc) ==
  IF r.ok THEN ElementSeparator(s, SkipSpace(s, r.p), Append(acc, r.v)) ELSE ParseFail

\* The elements of an array from i on, the first of them at i.
ParseElements(s, i, acc) == AfterElement(s, ParseValue(s, i), acc)

\* After a member of an object, at j: a comma and the next member, or the
\* closing brace.
MemberSeparator(s, j, acc) ==
  IF At(s, j) = "," THEN ParseMembers(s, SkipSpace(s, j + 1), acc)
  ELSE IF At(s, j) = "}" THEN Parsed(JObj(acc), j + 1)
  ELSE ParseFail

AfterMember(s, key, r, acc) ==
  IF r.ok THEN MemberSeparator(s, SkipSpace(s, r.p), Append(acc, [k |-> key, v |-> r.v]))
  ELSE ParseFail

\* After the key k of a member: the colon, at c, and the value.
AfterKey(s, k, c, acc) ==
  IF k.ok /\ At(s, c) = ":"
  THEN AfterMember(s, k.v.s, ParseValue(s, SkipSpace(s, c + 1)), acc)
  ELSE ParseFail

MemberAt(s, k, acc) == AfterKey(s, k, SkipSpace(s, k.p), acc)

\* The members of an object from i on, the first key at i.
ParseMembers(s, i, acc) ==
  IF At(s, i) = "\"" THEN MemberAt(s, ParseString(s, i), acc) ELSE ParseFail

\* The value that opens with the bracket or brace at i, whose first element
\* or member (or closing character) is at j.
ParseComposite(s, i, j) ==
  IF s[i] = "{"
  THEN IF At(s, j) = "}" THEN Parsed(JObj(<<>>), j + 1) ELSE ParseMembers(s, j, <<>>)
  ELSE IF At(s, j) = "]" THEN Parsed(JArr(<<>>), j + 1) ELSE ParseElements(s, j, <<>>)

\* One JSON value starting at i (white space already skipped).
ParseValue(s, i) ==
  IF At(s, i) \in {"{", "["} THEN ParseComposite(s, i, SkipSpace(s, i + 1))
  ELSE IF At(s, i) = "\"" THEN ParseString(s, i)
  ELSE IF At(s, i) = "-" \/ At(s, i) \in Digit THEN ParseNumber(s, i)
  ELSE IF HasAt(s, i, KW_TRUE) THEN Parsed(JBool(TRUE), i + 4)
  ELSE IF HasAt(s, i, KW_FALSE) THEN Parsed(JBool(FALSE), i + 5)
  ELSE IF HasAt(s, i, KW_NULL) THEN Parsed(JNull, i + 4)
  ELSE ParseFail

\* The whole text must be one value: only white space may follow it.
WholeText(s, r) ==
  IF r.ok /\ SkipSpace(s, r.p) = Len(s) + 1 THEN [ok |-> TRUE, v |-> r.v]
  ELSE [ok |-> FALSE, v |-> JUndefined]

\* JSON.parse(jsonStr): ok and the value, or not ok where it throws.
JsonParse(s) == WholeText(s, ParseValue(s, SkipSpace(s, 1)))

-----------------------------------------------------------------------------
(* The texts of the source: property names, placeholders, messages.        *)

\* "name"
KEY_NAME ==
  <<"n", "a", "m", "e">>

\* "address"
KEY_ADDRESS ==
  <<"a", "d", "d", "r", "e", "s", "s">>

\* "type"
KEY_TYPE ==
  <<"t", "y", "p", "e">>

\* "studentCount"
KEY_STUDENT_COUNT ==
  <<"s", "t", "u", "d", "e", "n", "t", "C", "o", "u", "n", "t">>

\* "phoneNumber"
KEY_PHONE_NUMBER ==
  <<"p", "h", "o", "n", "e", "N", "u", "m", "b", "e", "r">>

\* "principalName"
KEY_PRINCIPAL_NAME ==
  <<"p", "r", "i", "n", "c", "i", "p", "a", "l", "N", "a", "m", "e">>

\* "assistantName"
KEY_ASSISTANT_NAME ==
  <<"a", "s", "s", "i", "s", "t", "a", "n", "t", "N", "a", "m", "e">>

\* "managerEmail"
KEY_MANAGER_EMAIL ==
  <<"m", "a", "n", "a", "g", "e", "r", "E", "m", "a", "i", "l">>

\* "assistantEmail"
KEY_ASSISTANT_EMAIL ==
  <<"a", "s", "s", "i", "s", "t", "a", "n", "t", "E", "m", "a", "i", "l">>

\* "Unnamed School "
UNNAMED_SCHOOL ==
  <<"U", "n", "n", "a", "m", "e", "d", " ", "S", "c", "h", "o", "o", "l",
    " ">>

\* "Address not provided"
ADDRESS_NOT_PROVIDED ==
  <<"A", "d", "d", "r", "e", "s", "s", " ", "n", "o", "t", " ", "p", "r",
    "o", "v", "i", "d", "e", "d">>

\* "Type not specified"
TYPE_NOT_SPECIFIED ==
  <<"T", "y", "p", "e", " ", "n", "o", "t", " ", "s", "p", "e", "c", "i",
    "f", "i", "e", "d">>

\* "Gemini API key is not configured. Cannot fetch school data."
MSG_NOT_CONFIGURED ==
  <<"G", "e", "m", "i", "n", "i", " ", "A", "P", "I", " ", "k", "e", "y",
    " ", "i", "s", " ", "n", "o", "t", " ", "c", "o", "n", "f", "i", "g",
    "u", "r", "e", "d", ".", " ", "C", "a", "n", "n", "o", "t", " ", "f",
    "e", "t", "c", "h", " ", "s", "c", "h", "o", "o", "l", " ", "d", "a",
    "t", "a", ".">>

\* "Received an empty response from the AI."
MSG_EMPTY_RESPONSE ==
  <<"R", "e", "c", "e", "i", "v", "e", "d", " ", "a", "n", " ", "e", "m",
    "p", "t", "y", " ", "r", "e", "s", "p", "o", "n", "s", "e", " ", "f",
    "r", "o", "m", " ", "t", "h", "e", " ", "A", "I", ".">>

\* "Could not understand the AI's response. It wasn't valid JSON. Raw after cleaning: "
MSG_NOT_JSON ==
  <<"C", "o", "u", "l", "d", " ", "n", "o", "t", " ", "u", "n", "d", "e",
    "r", "s", "t", "a", "n", "d", " ", "t", "h", "e", " ", "A", "I", "'",
    "s", " ", "r", "e", "s", "p", "o", "n", "s", "e", ".", " ", "I", "t",
    " ", "w", "a", "s", "n", "'", "t", " ", "v", "a", "l", "i", "d", " ",
    "J", "S", "O", "N", ".", " ", "R", "a", "w", " ", "a", "f", "t", "e",
    "r", " ", "c", "l", "e", "a", "n", "i", "n", "g", ":", " ">>

\* "..."
ELLIPSIS ==
  <<".", ".", ".">>

\* "AI response was not a list of schools as expected."
MSG_NOT_A_LIST ==
  <<"A", "I", " ", "r", "e", "s", "p", "o", "n", "s", "e", " ", "w", "a",
    "s", " ", "n", "o", "t", " ", "a", " ", "l", "i", "s", "t", " ", "o",
    "f", " ", "s", "c", "h", "o", "o", "l", "s", " ", "a", "s", " ", "e",
    "x", "p", "e", "c", "t", "e", "d", ".">>

\* "API key not valid"
API_KEY_NOT_VALID ==
  <<"A", "P", "I", " ", "k", "e", "y", " ", "n", "o", "t", " ", "v", "a",
    "l", "i", "d">>

\* "The provided Gemini API key is not valid. Please check your configuration."
MSG_KEY_NOT_VALID ==
  <<"T", "h", "e", " ", "p", "r", "o", "v", "i", "d", "e", "d", " ", "G",
    "e", "m", "i", "n", "i", " ", "A", "P", "I", " ", "k", "e", "y", " ",
    "i", "s", " ", "n", "o", "t", " ", "v", "a", "l", "i", "d", ".", " ",
    "P", "l", "e", "a", "s", "e", " ", "c", "h", "e", "c", "k", " ", "y",
    "o", "u", "r", " ", "c", "o", "n", "f", "i", "g", "u", "r", "a", "t",
    "i", "o", "n", ".">>

\* "Failed to fetch school data from AI. "
MSG_FAILED ==
  <<"F", "a", "i", "l", "e", "d", " ", "t", "o", " ", "f", "e", "t", "c",
    "h", " ", "s", "c", "h", "o", "o", "l", " ", "d", "a", "t", "a", " ",
    "f", "r", "o", "m", " ", "A", "I", ".", " ">>

\* "AI returned an invalid school data structure for item at index "
MSG_INVALID_ITEM ==
  <<"A", "I", " ", "r", "e", "t", "u", "r", "n", "e", "d", " ", "a", "n",
    " ", "i", "n", "v", "a", "l", "i", "d", " ", "s", "c", "h", "o", "o",
    "l", " ", "d", "a", "t", "a", " ", "s", "t", "r", "u", "c", "t", "u",
    "r", "e", " ", "f", "o", "r", " ", "i", "t", "e", "m", " ", "a", "t",
    " ", "i", "n", "d", "e", "x", " ">>

\* ". Name: "
MSG_ITEM_NAME ==
  <<".", " ", "N", "a", "m", "e", ":", " ">>

\* ", Address: "
MSG_ITEM_ADDRESS ==
  <<",", " ", "A", "d", "d", "r", "e", "s", "s", ":", " ">>

\* ", Type: "
MSG_ITEM_TYPE ==
  <<",", " ", "T", "y", "p", "e", ":", " ">>

\* ", Count: "
MSG_ITEM_COUNT ==
  <<",", " ", "C", "o", "u", "n", "t", ":", " ">>

\* "undefined"
TXT_UNDEFINED ==
  <<"u", "n", "d", "e", "f", "i", "n", "e", "d">>

\* "[object Object]"
TXT_OBJECT ==
  <<"[", "o", "b", "j", "e", "c", "t", " ", "O", "b", "j", "e", "c", "t",
    "]">>

\* "Cannot read properties of null (reading 'name')"
TYPE_ERROR_V8 ==
  <<"C", "a", "n", "n", "o", "t", " ", "r", "e", "a", "d", " ", "p", "r",
    "o", "p", "e", "r", "t", "i", "e", "s", " ", "o", "f", " ", "n", "u",
    "l", "l", " ", "(", "r", "e", "a", "d", "i", "n", "g", " ", "'", "n",
    "a", "m", "e", "'", ")">>

\* "can't access property "name", item is null"
TYPE_ERROR_SPIDERMONKEY ==
  <<"c", "a", "n", "'", "t", " ", "a", "c", "c", "e", "s", "s", " ", "p",
    "r", "o", "p", "e", "r", "t", "y", " ", "\"", "n", "a", "m", "e", "\"",
    ",", " ", "i", "t", "e", "m", " ", "i", "s", " ", "n", "u", "l", "l">>

\* "null is not an object (evaluating 'item.name')"
TYPE_ERROR_JSC ==
  <<"n", "u", "l", "l", " ", "i", "s", " ", "n", "o", "t", " ", "a", "n",
    " ", "o", "b", "j", "e", "c", "t", " ", "(", "e", "v", "a", "l", "u",
    "a", "t", "i", "n", "g", " ", "'", "i", "t", "e", "m", ".", "n", "a",
    "m", "e", "'", ")">>

-----------------------------------------------------------------------------
(* JavaScript on the parsed values: property reads, truthiness, typeof,    *)
(* string conversion.                                                      *)

\* item.key, for an item a property can be read from.
Get(item, key) ==
  IF item.t = "obj" /\ \E k \in 1..Len(item.kv) : item.kv[k].k = key
  THEN item.kv[Max({k \in 1..Len(item.kv) : item.kv[k].k = key})].v
  ELSE JUndefined

\* Reading a property of null (or undefined) throws a TypeError.
ReadThrows(item) == item.t \in {"null", "undefined"}

Truthy(v) ==
  CASE v.t \in {"undefined", "null"} -> FALSE
    [] v.t = "bool" -> v.b
    [] v.t = "num" -> v.m # 0
    [] v.t = "str" -> v.s # <<>>
    [] OTHER -> TRUE

\* a || b
Or(a, b) == IF Truthy(a) THEN a ELSE b

TypeOf(v) ==
  CASE v.t = "str" -> "string"
    [] v.t = "num" -> "number"
    [] v.t = "bool" -> "boolean"
    [] v.t = "undefined" -> "undefined"
    [] OTHER -> "object"

\* The decimal digits of a natural number.
RECURSIVE DigitsOf(_)
DigitsOf(n) ==
  IF n < 10 THEN <<DIGITS[n + 1]>> ELSE Append(DigitsOf(n \div 10), DIGITS[(n % 10) + 1])

Zeros(n) == [k \in 1..n |-> "0"]

\* Number.prototype.toString of m * 10^e.
NumToText(v) ==
  LET a  == IF v.m < 0 THEN 0 - v.m ELSE v.m
      ds == DigitsOf(a)
      k  == Len(ds)
      n  == k + v.e
      x  == n - 1
      body ==
        IF k <= n /\ n <= 21 THEN ds \o Zeros(n - k)
        ELSE IF 0 < n /\ n <= 21 THEN SubSeq(ds, 1, n) \o <<".">> \o SubSeq(ds, n + 1, k)
        ELSE IF 0 - 6 < n /\ n <= 0 THEN <<"0", ".">> \o Zeros(0 - n) \o ds
        ELSE (IF k = 1 THEN ds ELSE <<ds[1], ".">> \o SubSeq(ds, 2, k))
             \o <<"e", IF x >= 0 THEN "+" ELSE "-">>
             \o DigitsOf(IF x >= 0 THEN x ELSE 0 - x)
  IN  IF v.m = 0 THEN <<"0">>
      ELSE (IF v.m < 0 THEN <<"-">> ELSE <<>>) \o body

\* String(v), as a template literal converts an interpolated value.
RECURSIVE JsToString(_)
RECURSIVE JoinElements(_, _)
JsToString(v) ==
  CASE v.t = "undefined" -> TXT_UNDEFINED
    [] v.t = "null" -> KW_NULL
    [] v.t = "bool" -> IF v.b THEN KW_TRUE ELSE KW_FALSE
    [] v.t = "num" -> NumToText(v)
    [] v.t = "str" -> v.s
    [] v.t = "arr" -> JoinElements(v.a, 1)
    [] OTHER -> TXT_OBJECT

\* Array.prototype.join(","): null and undefined elements give the empty text.
JoinElements(a, k) ==
  IF k > Len(a) THEN <<>>
  ELSE (IF k > 1 THEN <<",">> ELSE <<>>)
       \o (IF a[k].t \in {"null", "undefined"} THEN <<>> ELSE JsToString(a[k]))
       \o JoinElements(a, k + 1)

\* text.includes(p)
Includes(text, p) == \E i \in 1..(Len(text) - Len(p) + 1) : HasAt(text, i, p)

\* text.substring(0, n)
Substring0(text, n) == SubSeq(text, 1, IF Len(text) < n THEN Len(text) ELSE n)

\* array.indexOf(x): the JavaScript index of the first element that is x, or
\* -1.  An object is only ever equal to itself.
IndexOf(array, x) ==
  IF \E k \in 1..Len(array) : array[k] = x
  THEN Min({k \in 1..Len(array) : array[k] = x}) - 1
  ELSE 0 - 1

-----------------------------------------------------------------------------
(* parseJsonFromGeminiResponse and the body of fetchSchoolsNearAddress.    *)

EXCERPT_LENGTH == 150

\* What a block of code does: throws an Error with a message, or returns.
Thrown(message) == [threw |-> TRUE, message |-> message, value |-> <<>>]
Returned(value) == [threw |-> FALSE, message |-> <<>>, value |-> value]

\* parseJsonFromGeminiResponse(responseText)
\* try { return JSON.parse(jsonStr) } catch (e) { throw new Error(...) }
ParseOrThrow(jsonStr, parsed) ==
  IF parsed.ok THEN Returned(parsed.v)
  ELSE Thrown(MSG_NOT_JSON \o Substring0(jsonStr, EXCERPT_LENGTH) \o ELLIPSIS)

ParseCleaned(jsonStr) == ParseOrThrow(jsonStr, JsonParse(jsonStr))

ParseJsonFromGeminiResponse(responseText) == ParseCleaned(Cleaned(responseText))

\* The builds of the per-item mapping: the current one, the one before it
\* (which only warns about a bad core structure), and the strict one.
Variants == {"lenient", "lenientWarn", "strict"}

\* The message of the TypeError that item.name throws for a null item, by
\* JavaScript engine.
Engines == {"v8", "spidermonkey", "jsc"}

TypeErrorMessage(engine) ==
  CASE engine = "v8" -> TYPE_ERROR_V8
    [] engine = "spidermonkey" -> TYPE_ERROR_SPIDERMONKEY
    [] OTHER -> TYPE_ERROR_JSC

\* The object the lenient map callbacks return for the item at JavaScript
\* index `index`.
LenientSchool(item, index) ==
  [name           |-> Or(Get(item, KEY_NAME), JStr(UNNAMED_SCHOOL \o DigitsOf(index + 1))),
   address        |-> Or(Get(item, KEY_ADDRESS), JStr(ADDRESS_NOT_PROVIDED)),
   type           |-> Or(Get(item, KEY_TYPE), JStr(TYPE_NOT_SPECIFIED)),
   studentCount   |-> IF TypeOf(Get(item, KEY_STUDENT_COUNT)) = "number"
                      THEN Get(item, KEY_STUDENT_COUNT) ELSE JNum(0, 0),
   phoneNumber    |-> Or(Get(item, KEY_PHONE_NUMBER), JUndefined),
   principalName  |-> Or(Get(item, KEY_PRINCIPAL_NAME), JUndefined),
   assistantName  |-> Or(Get(item, KEY_ASSISTANT_NAME), JUndefined),
   managerEmail   |-> Or(Get(item, KEY_MANAGER_EMAIL), JUndefined),
   assistantEmail |-> Or(Get(item, KEY_ASSISTANT_EMAIL), JUndefined)]

\* The object the strict map callback returns.
StrictSchool(item) ==
  [name         |-> Get(item, KEY_NAME),
   address      |-> Get(item, KEY_ADDRESS),
   type         |-> Get(item, KEY_TYPE),
   studentCount |-> Get(item, KEY_STUDENT_COUNT)]

\* The condition under which the strict callback throws (and the previous
\* lenient one warns).
InvalidCore(item) ==
  \/ TypeOf(Get(item, KEY_NAME)) # "string"
  \/ TypeOf(Get(item, KEY_ADDRESS)) # "string"
  \/ TypeOf(Get(item, KEY_TYPE)) # "string"
  \/ TypeOf(Get(item, KEY_STUDENT_COUNT)) # "number"

InvalidItemMessage(item, index) ==
  MSG_INVALID_ITEM \o DigitsOf(index)
    \o MSG_ITEM_NAME \o JsToString(Get(item, KEY_NAME))
    \o MSG_ITEM_ADDRESS \o JsToString(Get(item, KEY_ADDRESS))
    \o MSG_ITEM_TYPE \o JsToString(Get(item, KEY_TYPE))
    \o MSG_ITEM_COUNT \o JsToString(Get(item, KEY_STUDENT_COUNT))

\* One call of the map callback.
MapItem(variant, engine, item, index) ==
  IF ReadThrows(item) THEN Thrown(TypeErrorMessage(engine))
  ELSE IF variant = "strict"
       THEN IF InvalidCore(item) THEN Thrown(InvalidItemMessage(item, index))
            ELSE Returned(StrictSchool(item))
  ELSE Returned(LenientSchool(item, index))

\* parsedData.map(callback): the callback runs on the elements in order, and
\* the first throw ends the map.
FirstThrow(each, bad) ==
  IF bad # {} THEN each[Min(bad)]
  ELSE Returned([k \in 1..Len(each) |-> each[k].value])

MapResults(each) == FirstThrow(each, {k \in 1..Len(each) : each[k].threw})

MapAll(variant, engine, parsedData) ==
  MapResults([k \in 1..Len(parsedData) |->
                MapItem(variant, engine, parsedData[k], k - 1)])

\* The filter callback of the current build.
KeepCurrent(parsedData, school) ==
  /\ Truthy(school.name)
  /\ school.name # JStr(UNNAMED_SCHOOL \o DigitsOf(IndexOf(parsedData, school) + 1))
  /\ Truthy(school.address)
  /\ school.address # JStr(ADDRESS_NOT_PROVIDED)
  /\ Truthy(school.type)
  /\ school.type # JStr(TYPE_NOT_SPECIFIED)

\* The filter callback of the build before it.
KeepPrevious(school) ==
  Truthy(school.name) /\ Truthy(school.address) /\ Truthy(school.type)

Filter(variant, parsedData, schools) ==
  CASE variant = "lenient" ->
         SelectSeq(schools, LAMBDA school : KeepCurrent(parsedData.a, school))
    [] variant = "lenientWarn" -> SelectSeq(schools, KeepPrevious)
    [] OTHER -> schools

\* The end of the try block: the filter over what the map returned.
MapThenFilter(variant, parsedData, mapped) ==
  IF mapped.threw THEN mapped
  ELSE Returned(Filter(variant, parsedData, mapped.value))

\* The try block from a shape check that tests typeof parsedData === "object"
\* in place of Array.isArray: an object or null passes and maps to nothing.
CheckObjectAndMap(variant, engine, parsed) ==
  IF parsed.threw THEN parsed
  ELSE IF parsed.value.t \notin {"arr", "obj", "null"} THEN Thrown(MSG_NOT_A_LIST)
  ELSE IF parsed.value.t # "arr" THEN Returned(<<>>)
  ELSE MapThenFilter(variant, parsed.value, MapAll(variant, engine, parsed.value.a))

\* The try block from the shape check on.
CheckAndMap(variant, engine, parsed) ==
  IF parsed.threw THEN parsed
  ELSE IF parsed.value.t # "arr" THEN Thrown(MSG_NOT_A_LIST)
  ELSE MapThenFilter(variant, parsed.value, MapAll(variant, engine, parsed.value.a))

\* The try block of fetchSchoolsNearAddress once generateContent has
\* resolved with `responseText`.
TryBlock(variant, engine, responseText) ==
  IF responseText = <<>> THEN Thrown(MSG_EMPTY_RESPONSE)
  ELSE CheckAndMap(variant, engine, ParseJsonFromGeminiResponse(responseText))

\* The catch block, for an Error with this message.
CatchBlock(message) ==
  IF Includes(message, API_KEY_NOT_VALID) THEN Thrown(MSG_KEY_NOT_VALID)
  ELSE Thrown(MSG_FAILED \o message)

\* normalize: the outcome of the call for a response text.
TryCatch(body) == IF body.threw THEN CatchBlock(body.message) ELSE body

Normalize(variant, engine, responseText) ==
  TryCatch(TryBlock(variant, engine, responseText))

-----------------------------------------------------------------------------
(* The external model: the response texts generateContent resolves with.   *)
(* A response is the JSON text of a value the model meant to send (`sent`) *)
(* in one of the layouts a reply comes in, or a text that is no JSON.      *)

\* The escape a JSON writer emits for a character of a string, if any.
EscapedChar(c) ==
  CASE c = "\"" -> <<"\\", "\"">>
    [] c = "\\" -> <<"\\", "\\">>
    [] c = "\n" -> <<"\\", "n">>
    [] c = "\r" -> <<"\\", "r">>
    [] c = "\t" -> <<"\\", "t">>
    [] c = "\f" -> <<"\\", "f">>
    [] c = "BS" -> <<"\\", "b">>
    [] OTHER -> <<c>>

RECURSIVE Concat(_, _)
Concat(parts, k) == IF k > Len(parts) THEN <<>> ELSE parts[k] \o Concat(parts, k + 1)

Quote(text) == <<"\"">> \o Concat([k \in 1..Len(text) |-> EscapedChar(text[k])], 1) \o <<"\"">>

\* JSON.stringify(v), the compact text of a value.
RECURSIVE Stringify(_)
Stringify(v) ==
  CASE v.t = "null" -> KW_NULL
    [] v.t = "bool" -> IF v.b THEN KW_TRUE ELSE KW_FALSE
    [] v.t = "num" -> NumToText(v)
    [] v.t = "str" -> Quote(v.s)
    [] v.t = "arr" ->
         <<"[">> \o Concat([k \in 1..Len(v.a) |->
                    (IF k > 1 THEN <<",">> ELSE <<>>) \o Stringify(v.a[k])], 1) \o <<"]">>
    [] OTHER ->
         <<"{">> \o Concat([k \in 1..Len(v.kv) |->
                    (IF k > 1 THEN <<",">> ELSE <<>>)
                    \o Quote(v.kv[k].k) \o <<":">> \o Stringify(v.kv[k].v)], 1) \o <<"}">>

Field(k, v) == [k |-> k, v |-> v]

\* obj with its member `key` set to v (added last when it has none).
With(obj, key, v) ==
  IF \E k \in 1..Len(obj.kv) : obj.kv[k].k = key
  THEN JObj([k \in 1..Len(obj.kv) |->
               IF obj.kv[k].k = key THEN Field(key, v) ELSE obj.kv[k]])
  ELSE JObj(Append(obj.kv, Field(key, v)))

\* obj without its member `key`.
Without(obj, key) == JObj(SelectSeq(obj.kv, LAMBDA m : m.k # key))

\* The example of the prompt, cut to short values: the four core fields.
SCHOOL_CORE ==
  JObj(<<Field(KEY_NAME, JStr(<<"A">>)),
         Field(KEY_ADDRESS, JStr(<<"1", " ", "M", "a", "i", "n">>)),
         Field(KEY_TYPE, JStr(<<"K", "-", "1", "2">>)),
         Field(KEY_STUDENT_COUNT, JNum(12, 1))>>)

\* A school with every optional field.
SCHOOL_FULL ==
  JObj(SCHOOL_CORE.kv \o
       <<Field(KEY_PHONE_NUMBER, JStr(<<"5", "5", "5", "-", "0", "1", "0", "1">>)),
         Field(KEY_PRINCIPAL_NAME, JStr(<<"D", "r", ".", " ", "D", "o", "e">>)),
         Field(KEY_ASSISTANT_NAME, JStr(<<"M", "r", ".", " ", "L", "e", "e">>)),
         Field(KEY_MANAGER_EMAIL, JStr(<<"a", "@", "x", ".", "o", "r", "g">>)),
         Field(KEY_ASSISTANT_EMAIL, JStr(<<"b", "@", "x", ".", "o", "r", "g">>))>>)

\* Schools of the SchoolRecord shape whose texts hold non-ASCII characters:
\* one inside a word, one after a digit and before a comma, one that opens a
\* value and stands before a comma.
SCHOOL_ACCENT == With(SCHOOL_CORE, KEY_NAME, JStr(<<"Z", "o", "U+00EB">>))
SCHOOL_SUITE == With(SCHOOL_CORE, KEY_ADDRESS, JStr(<<"S", "u", "i", "t", "e", " ", "5", "U+00E9", ",", " ", "E", "l", "m">>))
SCHOOL_STAR == With(SCHOOL_FULL, KEY_PRINCIPAL_NAME, JStr(<<"U+2605", ",", " ", "P", "h", "D">>))

\* The array elements that match the SchoolRecord shape.
ValidItems == {SCHOOL_CORE, SCHOOL_FULL, SCHOOL_ACCENT, SCHOOL_SUITE, SCHOOL_STAR}

\* Array elements that do not: a core field missing, empty or of the wrong
\* type, a count that is no non-negative whole number, optional fields that
\* are no text, and elements that are no objects.
InvalidItems ==
  {Without(SCHOOL_CORE, KEY_NAME),
   With(SCHOOL_CORE, KEY_NAME, JNum(7, 0)),
   With(SCHOOL_CORE, KEY_NAME, JStr(<<>>)),
   Without(SCHOOL_FULL, KEY_ADDRESS),
   With(SCHOOL_CORE, KEY_TYPE, JNull),
   Without(SCHOOL_CORE, KEY_STUDENT_COUNT),
   With(SCHOOL_CORE, KEY_STUDENT_COUNT, JStr(<<"1", "2">>)),
   With(SCHOOL_CORE, KEY_STUDENT_COUNT, JNum(0 - 5, 0)),
   With(SCHOOL_CORE, KEY_STUDENT_COUNT, JNum(15, 0 - 1)),
   With(With(With(With(SCHOOL_FULL, KEY_PHONE_NUMBER, JNum(5, 0)),
                  KEY_PRINCIPAL_NAME, JStr(<<>>)),
             KEY_ASSISTANT_NAME, JNull),
        KEY_MANAGER_EMAIL, JBool(TRUE)),
   With(With(SCHOOL_CORE, KEY_ADDRESS, JStr(API_KEY_NOT_VALID)), KEY_TYPE, JNum(3, 0)),
   JNull,
   JNum(7, 0),
   JStr(<<"x">>),
   JArr(<<>>),
   JObj(<<>>)}

Items == ValidItems \cup InvalidItems

\* The longest array a response holds.
MaxItems == 2

RECURSIVE SeqsOf(_, _)
SeqsOf(S, n) ==
  IF n = 0 THEN {<<>>}
  ELSE LET shorter == SeqsOf(S, n - 1)
       IN  shorter \cup {Append(q, x) : q \in {r \in shorter : Len(r) = n - 1}, x \in S}

\* The elements that longer arrays are made of: schools of the SchoolRecord
\* shape, one without a name, one with a negative count, and null.
MixedItems ==
  {SCHOOL_CORE,
   SCHOOL_STAR,
   Without(SCHOOL_CORE, KEY_NAME),
   With(SCHOOL_CORE, KEY_STUDENT_COUNT, JNum(0 - 5, 0)),
   JNull}

\* The values the model sends as an array of schools: the empty array, every
\* element alone, and the arrays of up to MaxItems mixed elements.
SentArrays == {JArr(a) : a \in SeqsOf(Items, 1) \cup SeqsOf(MixedItems, MaxItems)}

\* Values that are valid JSON and no array.
SentOthers ==
  {JObj(<<Field(<<"n", "o", "t">>, JStr(<<"a", "n", " ", "a", "r", "r", "a", "y">>))>>),
   SCHOOL_CORE,
   JStr(<<"x">>),
   JStr(API_KEY_NOT_VALID),
   JNum(5, 0),
   JNum(0, 0),
   JBool(TRUE),
   JBool(FALSE),
   JNull}

\* The layouts of a reply: the bare text, the text in a fenced code block
\* with or without the json tag, and the text with a decorative symbol put
\* before its last bracket.
Layouts == {"bare", "fencedJson", "fenced", "decorated"}

FenceJson(text) == BACKTICKS \o JSON_TAG \o <<"\n">> \o text \o <<"\n">> \o BACKTICKS
Fence(text) == BACKTICKS \o <<"\n">> \o text \o <<"\n">> \o BACKTICKS

Layout(layout, text) ==
  CASE layout = "fencedJson" -> FenceJson(text)
    [] layout = "fenced" -> Fence(text)
    [] layout = "decorated" ->
         IF text = <<>> THEN text
         ELSE SubSeq(text, 1, Len(text) - 1) \o <<" ", "U+2605", "U+00A0">>
              \o <<text[Len(text)]>>
    [] OTHER -> text

\* Texts that are not the JSON of any value: prose, white space, a fence
\* around nothing, arrays that are cut off or carry a stray token JSON.parse
\* rejects, and a broken text longer than the excerpt of the parse error.
RawTexts ==
  {<<"n", "o", "t", " ", "j", "s", "o", "n", " ", "a", "t", " ", "a", "l", "l">>,
   <<" ">>,
   <<"\n", "U+00A0", "\t">>,
   API_KEY_NOT_VALID,
   FenceJson(<<>>),
   Fence(<<" ">>),
   <<"[", "1", ",">>,
   <<"[", "1", "U+2605", "]">>,
   <<"[", "1", " ", "U+2605", "U+2605", ",", "t", "r", "u", "e", "U+00E9", "]">>,
   <<"[", "1", "U+2605", "2", "]">>,
   <<"[", "\"", "a", "\"", "U+00E9", ",", "n", "u", "l", "l", "U+00A0", "}", "]">>,
   Stringify(JArr(<<SCHOOL_FULL, SCHOOL_STAR>>)) \o <<";">>,
   <<"{">> \o Stringify(JArr(<<SCHOOL_FULL, SCHOOL_FULL>>))}

\* The messages generateContent rejects with: the service's answer to a bad
\* credential, and a transport failure.
ApiErrors ==
  {<<"A", "P", "I", " ", "k", "e", "y", " ", "n", "o", "t", " ", "v", "a", "l", "i", "d", ".", " ", "P", "l", "e", "a", "s", "e", " ", "p", "a", "s", "s", " ", "a", " ", "v", "a", "l", "i", "d", " ", "A", "P", "I", " ", "k", "e", "y", ".">>,
   <<"F", "a", "i", "l", "e", "d", " ", "t", "o", " ", "f", "e", "t", "c", "h">>}

-----------------------------------------------------------------------------
(* One session: the module's API_KEY, the build and the engine are fixed   *)
(* when it starts; then fetchSchoolsNearAddress is called, awaits          *)
(* generateContent and settles, again and again.                           *)

VARIABLES
  apiKey,        \* whether process.env.API_KEY is set
  variant,       \* the build of the per-item mapping
  engine,        \* the JavaScript engine the page runs on
  pc,            \* "idle", "awaiting" (generateContent pending) or "settled"
  sent,          \* the value the model meant to send (JUndefined: none)
  resolved,      \* whether generateContent resolved (with a response)
  responseText,  \* response.text of the last reply
  outcome        \* how the promise settled: Returned(schools) or Thrown(message)

\* The repair loop of parseJsonFromGeminiResponse, pass by pass.
VARIABLES
  repairInput,   \* jsonStr as the loop is entered
  jsonStr,       \* jsonStr
  prevJsonStr,   \* prevJsonStr
  passes,        \* how many times the loop body has run
  repairPc       \* "off", "loop" (the body is to run) or "done"

\* convertToCSV, call by call.
VARIABLES
  data,          \* the argument of the last call
  csvString,     \* what it returned
  csvPc          \* "off" or "returned"

\* The App, its form and what it started.
VARIABLES
  schools,          \* useState: the list shown
  isLoading,        \* useState
  error,            \* useState: null or a message
  addressSearched,  \* useState
  address,          \* useState of AddressInputForm: the text of the input
  requests,         \* the calls of fetchSchoolsNearAddress not yet awaited through
  download,         \* the last file handed to the browser
  fetchOutcomes     \* what a call of fetchSchoolsNearAddress can end with in
                    \* this session

fetchVars == <<apiKey, variant, engine, pc, sent, resolved, responseText, outcome>>

repairVars == <<repairInput, jsonStr, prevJsonStr, passes, repairPc>>

csvVars == <<data, csvString, csvPc>>

appVars ==
  <<schools, isLoading, error, addressSearched, address, requests, download, fetchOutcomes>>

vars == <<fetchVars, repairVars, csvVars, appVars>>

\* No repair loop is being followed.
RepairOff ==
  /\ repairInput = <<>>
  /\ jsonStr = <<>>
  /\ prevJsonStr = <<>>
  /\ passes = 0
  /\ repairPc = "off"

\* No call of convertToCSV is being followed.
CsvOff ==
  /\ data = <<>>
  /\ csvString = <<>>
  /\ csvPc = "off"

\* No download yet.
NoDownload == [filename |-> <<>>, content |-> <<>>]

\* The App as constructed: the initial values of its useState calls.
AppConstructed ==
  /\ schools = <<>>
  /\ isLoading = FALSE
  /\ error = JNull
  /\ addressSearched = <<>>
  /\ address = <<>>
  /\ requests = <<>>
  /\ download = NoDownload

\* No App is being followed.
AppOff == AppConstructed /\ fetchOutcomes = {}

\* What a call of fetchSchoolsNearAddress leaves alone, and what the repair
\* loop and convertToCSV leave alone.
outsideFetch == <<repairVars, csvVars, appVars>>

outsideRepair == <<fetchVars, csvVars, appVars>>

outsideCsv == <<fetchVars, repairVars, appVars>>

outsideApp == <<fetchVars, repairVars, csvVars>>

NoOutcome == Returned(<<>>)

Init ==
  /\ apiKey \in BOOLEAN
  /\ variant \in Variants
  /\ engine \in Engines
  /\ pc = "idle"
  /\ sent = JUndefined
  /\ resolved = FALSE
  /\ responseText = <<>>
  /\ outcome = NoOutcome
  /\ RepairOff
  /\ CsvOff
  /\ AppOff

\* fetchSchoolsNearAddress(address) without the test of API_KEY: the call
\* goes out with the placeholder key the client was built with.
FetchUnchecked ==
  /\ pc = "idle"
  /\ pc' = "awaiting"
  /\ outcome' = NoOutcome
  /\ UNCHANGED <<apiKey, variant, engine, sent, resolved, responseText, outsideFetch>>

\* fetchSchoolsNearAddress(address) up to its await: without an API key it
\* throws at once, with one it calls generateContent.
Fetch ==
  /\ pc = "idle"
  /\ IF apiKey
     THEN pc' = "awaiting" /\ outcome' = NoOutcome
     ELSE pc' = "settled" /\ outcome' = Thrown(MSG_NOT_CONFIGURED)
  /\ UNCHANGED <<apiKey, variant, engine, sent, resolved, responseText, outsideFetch>>

\* The rest of the call once generateContent has resolved with `text`.
Settle(value, text) ==
  /\ pc = "awaiting"
  /\ pc' = "settled"
  /\ sent' = value
  /\ resolved' = TRUE
  /\ responseText' = text
  /\ outcome' = Normalize(variant, engine, text)
  /\ UNCHANGED <<apiKey, variant, engine, outsideFetch>>

\* generateContent resolves with the JSON text of a value, in some layout.
RespondJson ==
  \E value \in SentArrays \cup SentOthers, layout \in Layouts :
    Settle(value, Layout(layout, Stringify(value)))

\* generateContent resolves with a text that is no JSON.
RespondRaw == \E text \in RawTexts : Settle(JUndefined, text)

\* generateContent resolves with no text at all.
RespondEmpty == Settle(JUndefined, <<>>)

\* generateContent rejects: the catch block gets its error.
Reject ==
  /\ pc = "awaiting"
  /\ \E message \in ApiErrors : outcome' = CatchBlock(message)
  /\ pc' = "settled"
  /\ UNCHANGED <<apiKey, variant, engine, sent, resolved, responseText, outsideFetch>>

\* The caller is done with the outcome; the next call starts afresh.
Done ==
  /\ pc = "settled"
  /\ pc' = "idle"
  /\ sent' = JUndefined
  /\ resolved' = FALSE
  /\ responseText' = <<>>
  /\ outcome' = NoOutcome
  /\ UNCHANGED <<apiKey, variant, engine, outsideFetch>>

Next == Fetch \/ RespondJson \/ RespondRaw \/ RespondEmpty \/ Reject \/ Done

Spec == Init /\ [][Next]_vars

-----------------------------------------------------------------------------
(* The repair loop on its own: do { prevJsonStr = jsonStr; jsonStr =        *)
(* jsonStr.replace(...) } while (prevJsonStr !== jsonStr), one pass a step, *)
(* from every text of a bounded set.                                        *)

\* The longest text made of the characters below.
MaxRepairLen == 5

\* A token character of each kind, a stray character, a structural character
\* and white space.
RepairAlphabet == {"\"", "1", "U+00E9", ",", " "}

\* Texts whose repair takes more than one changing pass, or removes long runs
\* of stray characters.
AdversarialTexts ==
  {<<"\"", "1", "U+00E9", ",", "\"", "U+00E9", ",">>,
   <<"[", "\"", "t", "r", "u", "e", "U+2605", "]", "\"", "U+2605", "U+2605", ",",
     "n", "u", "l", "l", " ", "U+00E9", "U+00A0", "U+00E9", " ", "]">>,
   <<"[", "1">> \o [k \in 1..8 |-> "U+00E9"] \o <<",", "2", ".", "5", "e", "3">>
     \o [k \in 1..8 |-> "U+2605"] \o <<"]">>}

RepairInputs == SeqsOf(RepairAlphabet, MaxRepairLen) \cup AdversarialTexts \cup RawTexts

\* No call of fetchSchoolsNearAddress is being followed.
FetchOff ==
  /\ apiKey = TRUE
  /\ variant = "lenient"
  /\ engine = "v8"
  /\ pc = "idle"
  /\ sent = JUndefined
  /\ resolved = FALSE
  /\ responseText = <<>>
  /\ outcome = NoOutcome

RepairInit == FetchOff /\ RepairOff /\ CsvOff /\ AppOff

\* parseJsonFromGeminiResponse reaches the loop with some text in jsonStr.
RepairEnter ==
  /\ repairPc = "off"
  /\ \E s \in RepairInputs : repairInput' = s /\ jsonStr' = s
  /\ repairPc' = "loop"
  /\ UNCHANGED <<prevJsonStr, passes, outsideRepair>>

\* The loop with a condition that compares jsonStr with the text the loop was
\* entered with, not with the text before the pass.
RepairPassFromInput ==
  /\ repairPc = "loop"
  /\ prevJsonStr' = jsonStr
  /\ jsonStr' = ReplacePass(jsonStr)
  /\ passes' = passes + 1
  /\ repairPc' = IF repairInput # jsonStr' THEN "loop" ELSE "done"
  /\ UNCHANGED <<repairInput, outsideRepair>>

\* One run of the loop body and the test of the loop condition after it.
RepairPass ==
  /\ repairPc = "loop"
  /\ prevJsonStr' = jsonStr
  /\ jsonStr' = ReplacePass(jsonStr)
  /\ passes' = passes + 1
  /\ repairPc' = IF jsonStr # jsonStr' THEN "loop" ELSE "done"
  /\ UNCHANGED <<repairInput, outsideRepair>>

RepairNext == RepairEnter \/ RepairPass

RepairSpec == RepairInit /\ [][RepairNext]_vars

-----------------------------------------------------------------------------
(* convertToCSV.                                                            *)

CSV_NOT_AVAILABLE == <<"N", "o", "t", " ", "a", "v", "a", "i", "l", "a", "b", "l", "e">>

\* The fixed headers, in order: the key of the School and the label.
HEADERS ==
  <<[key |-> "name", label |-> <<"N", "a", "m", "e">>],
    [key |-> "address", label |-> <<"A", "d", "d", "r", "e", "s", "s">>],
    [key |-> "type", label |-> <<"T", "y", "p", "e">>],
    [key |-> "studentCount",
     label |-> <<"S", "t", "u", "d", "e", "n", "t", " ", "C", "o", "u", "n", "t">>],
    [key |-> "phoneNumber",
     label |-> <<"P", "h", "o", "n", "e", " ", "N", "u", "m", "b", "e", "r">>],
    [key |-> "principalName",
     label |-> <<"P", "r", "i", "n", "c", "i", "p", "a", "l", " ", "N", "a", "m", "e">>],
    [key |-> "assistantName",
     label |-> <<"A", "s", "s", "i", "s", "t", "a", "n", "t", " ", "N", "a", "m", "e">>],
    [key |-> "managerEmail",
     label |-> <<"M", "a", "n", "a", "g", "e", "r", " ", "E", "m", "a", "i", "l">>],
    [key |-> "assistantEmail",
     label |-> <<"A", "s", "s", "i", "s", "t", "a", "n", "t", " ", "E", "m", "a", "i", "l">>]>>

\* parts.join(sep), from the k-th part on.
RECURSIVE JoinWith(_, _, _)
JoinWith(parts, sep, k) ==
  IF k > Len(parts) THEN <<>>
  ELSE (IF k > 1 THEN sep ELSE <<>>) \o parts[k] \o JoinWith(parts, sep, k + 1)

\* row[header.key]
RowValue(row, key) == IF key \in DOMAIN row THEN row[key] ELSE JUndefined

\* The text of a cell before escaping: "Not available" for undefined and
\* null, value.toString() for a number, '' + value otherwise.
CellText(value) ==
  IF value.t \in {"undefined", "null"} THEN CSV_NOT_AVAILABLE ELSE JsToString(value)

\* A conversion that encloses the text as it is.
EscapeNothing(text) == text

\* text.replace(/"/g, '""')
EscapeQuotes(text) ==
  Concat([k \in 1..Len(text) |-> IF text[k] = "\"" THEN <<"\"", "\"">> ELSE <<text[k]>>], 1)

\* `"${escaped}"`
Cell(value) == <<"\"">> \o EscapeQuotes(CellText(value)) \o <<"\"">>

HeaderRow == JoinWith([k \in 1..Len(HEADERS) |-> HEADERS[k].label], <<",">>, 1)

DataRow(row) ==
  JoinWith([k \in 1..Len(HEADERS) |-> Cell(RowValue(row, HEADERS[k].key))], <<",">>, 1)

\* convertToCSV(data)
ConvertToCSV(rows) ==
  IF rows = <<>> THEN <<>>
  ELSE JoinWith(<<HeaderRow>> \o [k \in 1..Len(rows) |-> DataRow(rows[k])], <<"\n">>, 1)

\* The Schools convertToCSV is called with: records as the normalization
\* returns them, with texts that hold quotes, commas and line breaks.
CsvTexts ==
  {<<"A">>,
   <<"H", "e", " ", "s", "a", "i", "d", " ", "\"", "h", "i", "\"">>,
   <<"a", ",", "b">>,
   <<"1", "\n", "2">>,
   <<"\"">>,
   <<"\"", "\"", ",", "\"">>,
   <<"Z", "o", "U+00EB", ";", " ", "\r", "\n", "\"", ",", "\"", "\"">>}

CsvSchools ==
  {[LenientSchool(SCHOOL_FULL, 0) EXCEPT !.name = JStr(t)] : t \in CsvTexts}
    \cup {[LenientSchool(SCHOOL_CORE, 0) EXCEPT !.address = JStr(t)] : t \in CsvTexts}
    \cup {LenientSchool(SCHOOL_FULL, 0),
          [LenientSchool(SCHOOL_FULL, 0) EXCEPT !.assistantName = JNull,
                                               !.studentCount = JNum(15, 0 - 1)],
          StrictSchool(SCHOOL_CORE)}

\* The most rows of a call.
MaxRows == 2

CsvInputs == SeqsOf(CsvSchools, MaxRows)

CsvInit == FetchOff /\ RepairOff /\ CsvOff /\ AppOff

\* One call of convertToCSV.
Convert ==
  /\ csvPc = "off"
  /\ \E rows \in CsvInputs : data' = rows /\ csvString' = ConvertToCSV(rows)
  /\ csvPc' = "returned"
  /\ UNCHANGED outsideCsv

\* The caller takes the text; the next call starts afresh.
CsvDone ==
  /\ csvPc = "returned"
  /\ data' = <<>>
  /\ csvString' = <<>>
  /\ csvPc' = "off"
  /\ UNCHANGED outsideCsv

CsvNext == Convert \/ CsvDone

CsvSpec == CsvInit /\ [][CsvNext]_vars

-----------------------------------------------------------------------------
(* The App: handleSearch, handleExportCSV, the form and what is rendered.   *)

MSG_ENTER_ADDRESS ==
  <<"P", "l", "e", "a", "s", "e", " ", "e", "n", "t", "e", "r", " ", "a",
    "n", " ", "a", "d", "d", "r", "e", "s", "s", ".">>

MSG_UNKNOWN_FETCH ==
  <<"A", "n", " ", "u", "n", "k", "n", "o", "w", "n", " ", "e", "r", "r",
    "o", "r", " ", "o", "c", "c", "u", "r", "r", "e", "d", " ", "w", "h",
    "i", "l", "e", " ", "f", "e", "t", "c", "h", "i", "n", "g", " ", "s",
    "c", "h", "o", "o", "l", " ", "d", "a", "t", "a", ".">>

MSG_NO_DATA_TO_EXPORT ==
  <<"N", "o", " ", "s", "c", "h", "o", "o", "l", " ", "d", "a", "t", "a",
    " ", "a", "v", "a", "i", "l", "a", "b", "l", "e", " ", "t", "o", " ",
    "e", "x", "p", "o", "r", "t", ".">>

MSG_EXPORT_FAILED ==
  <<"F", "a", "i", "l", "e", "d", " ", "t", "o", " ", "e", "x", "p", "o",
    "r", "t", " ", "C", "S", "V", ".">>

FILE_PREFIX == <<"s", "c", "h", "o", "o", "l", "s", "_", "n", "e", "a", "r", "_">>

FILE_SUFFIX == <<".", "c", "s", "v">>

\* The texts the user types into the input.
Addresses ==
  {<<>>,
   <<" ">>,
   <<"\t", "U+00A0", " ">>,
   <<"1", " ", "M", "a", "i", "n">>,
   <<" ", "U+00C9", "l", "m", ",", "9", ".", "c", "s", "v">>}

\* What a call of fetchSchoolsNearAddress ends with when the key is there:
\* the normalization of what generateContent resolved with, or the catch block
\* on what it rejected with. Without a key every call throws before anything
\* is sent.
FetchOutcomes ==
  {Normalize("lenient", "v8", Stringify(JArr(a))) :
     a \in {<<>>, <<SCHOOL_CORE>>, <<SCHOOL_FULL, SCHOOL_CORE>>, <<JNull>>}}
    \cup {Normalize("lenient", "v8", <<"[", "1", ",">>), Normalize("lenient", "v8", <<>>)}
    \cup {CatchBlock(message) : message \in ApiErrors}

\* What exportToCsv ends with: the file is handed to the browser, the browser
\* has no download attribute and the text is logged after an alert, or a call
\* into the platform throws (an Error with a message, an Error without one,
\* a value that is no Error).
PLATFORM_ERROR ==
  <<"F", "a", "i", "l", "e", "d", " ", "t", "o", " ", "e", "x", "e", "c",
    "u", "t", "e", " ", "'", "c", "r", "e", "a", "t", "e", "O", "b", "j",
    "e", "c", "t", "U", "R", "L", "'", " ", "o", "n", " ", "'", "U", "R",
    "L", "'", ":", " ", "O", "v", "e", "r", "l", "o", "a", "d", " ", "r",
    "e", "s", "o", "l", "u", "t", "i", "o", "n", " ", "f", "a", "i", "l",
    "e", "d", ".">>

ExportThrows ==
  {[isError |-> TRUE, message |-> PLATFORM_ERROR],
   [isError |-> TRUE, message |-> <<>>],
   [isError |-> FALSE, message |-> <<>>]}

\* The most calls of fetchSchoolsNearAddress started and not awaited through.
MaxInFlight == 2

\* What the render shows: the ErrorMessage (`error &&`), the spinner, the
\* SchoolList.
ErrorShown == Truthy(error)

SpinnerShown == isLoading

TableShown == ~ isLoading /\ Len(schools) > 0

\* The 'No schools found for "<addressSearched>"' message.
NoSchoolsShown ==
  ~ isLoading /\ ~ Truthy(error) /\ Len(schools) = 0 /\ addressSearched # <<>>

\* disabled={isLoading} on the input and on the submit button.
FormDisabled == isLoading

\* A settled call whose handleSearch has not run on yet: the continuation
\* is a microtask, it runs before the next event.
Settled(i) == requests[i].status = "settled"

ContinuationDue == \E i \in 1..Len(requests) : Settled(i)

\* addressSearched.replace(/[^a-zA-Z0-9]/g, '_')
Sanitize(text) ==
  [k \in 1..Len(text) |-> IF text[k] \in Letter \cup Digit THEN text[k] ELSE "_"]

EndsWith(text, suffix) ==
  Len(text) >= Len(suffix) /\ SubSeq(text, Len(text) - Len(suffix) + 1, Len(text)) = suffix

\* The name exportToCsv gives the link.
DownloadName(filename) ==
  IF EndsWith(filename, FILE_SUFFIX) THEN filename ELSE filename \o FILE_SUFFIX

AppInit ==
  /\ apiKey \in BOOLEAN
  /\ variant = "lenient"
  /\ engine = "v8"
  /\ pc = "idle"
  /\ sent = JUndefined
  /\ resolved = FALSE
  /\ responseText = <<>>
  /\ outcome = NoOutcome
  /\ RepairOff
  /\ CsvOff
  /\ AppConstructed
  /\ fetchOutcomes = IF apiKey THEN FetchOutcomes ELSE {Thrown(MSG_NOT_CONFIGURED)}

\* onChange of the input.
ChangeAddress ==
  /\ ~ FormDisabled
  /\ ~ ContinuationDue
  /\ \E text \in Addresses : address' = text
  /\ UNCHANGED <<schools, isLoading, error, addressSearched, requests, download, fetchOutcomes,
               outsideApp>>

\* A handleSearch that starts the call whatever the text.
HandleSearchUnchecked(text) ==
  /\ isLoading' = TRUE
  /\ error' = JNull
  /\ schools' = <<>>
  /\ addressSearched' = text
  /\ requests' = Append(requests, [address |-> text, status |-> "awaiting",
                                   outcome |-> NoOutcome])

\* handleSearch(text), up to the await.
HandleSearch(text) ==
  IF Trim(text) = <<>>
  THEN /\ error' = JStr(MSG_ENTER_ADDRESS)
       /\ schools' = <<>>
       /\ addressSearched' = <<>>
       /\ UNCHANGED <<isLoading, requests>>
  ELSE /\ isLoading' = TRUE
       /\ error' = JNull
       /\ schools' = <<>>
       /\ addressSearched' = text
       /\ requests' = Append(requests, [address |-> text, status |-> "awaiting",
                                        outcome |-> NoOutcome])

\* A form that stays enabled while a search is loading.
SubmitWhileLoading ==
  /\ ~ ContinuationDue
  /\ Len(requests) < MaxInFlight
  /\ HandleSearch(address)
  /\ UNCHANGED <<address, download, fetchOutcomes, outsideApp>>

\* The form is submitted: handleSubmit calls onSubmit(address).
Submit ==
  /\ ~ FormDisabled
  /\ ~ ContinuationDue
  /\ Len(requests) < MaxInFlight
  /\ HandleSearch(address)
  /\ UNCHANGED <<address, download, fetchOutcomes, outsideApp>>

\* A call of fetchSchoolsNearAddress settles.
FetchSettles ==
  /\ ~ ContinuationDue
  /\ \E i \in 1..Len(requests) :
       \E o \in fetchOutcomes :
         requests' = [requests EXCEPT ![i] = [@ EXCEPT !.status = "settled", !.outcome = o]]
  /\ UNCHANGED <<schools, isLoading, error, addressSearched, address, download, fetchOutcomes,
               outsideApp>>

\* requests without its i-th element.
RequestsWithout(i) ==
  [k \in 1..(Len(requests) - 1) |-> IF k < i THEN requests[k] ELSE requests[k + 1]]

\* A continuation with no finally block after the catch.
ContinueWithoutFinally ==
  \E i \in 1..Len(requests) :
    /\ Settled(i)
    /\ IF requests[i].outcome.threw
       THEN /\ error' = JStr(requests[i].outcome.message)
            /\ schools' = <<>>
            /\ UNCHANGED isLoading
       ELSE /\ schools' = requests[i].outcome.value
            /\ isLoading' = FALSE
            /\ UNCHANGED error
    /\ requests' = RequestsWithout(i)
    /\ UNCHANGED <<addressSearched, address, download, fetchOutcomes, outsideApp>>

\* handleSearch after the await: try, catch, finally. What
\* fetchSchoolsNearAddress throws is an Error in every case, so the catch
\* block takes err.message.
Continue ==
  \E i \in 1..Len(requests) :
    /\ Settled(i)
    /\ IF requests[i].outcome.threw
       THEN /\ error' = JStr(requests[i].outcome.message)
            /\ schools' = <<>>
       ELSE /\ schools' = requests[i].outcome.value
            /\ UNCHANGED error
    /\ isLoading' = FALSE
    /\ requests' = RequestsWithout(i)
    /\ UNCHANGED <<addressSearched, address, download, fetchOutcomes, outsideApp>>

\* exportToCsv(filename, rows) when the browser takes the file.
Downloaded(filename, rows) ==
  IF rows = <<>> \/ ConvertToCSV(rows) = <<>> THEN download
  ELSE [filename |-> DownloadName(filename), content |-> ConvertToCSV(rows)]

\* An export that drops the list when exportToCsv throws.
HandleExportCSVClearing ==
  /\ TableShown
  /\ ~ ContinuationDue
  /\ \E thrown \in ExportThrows :
       error' = JStr(IF thrown.isError THEN thrown.message ELSE MSG_EXPORT_FAILED)
  /\ schools' = <<>>
  /\ UNCHANGED <<isLoading, addressSearched, address, requests, download, fetchOutcomes,
               outsideApp>>

\* The export button of the SchoolList: handleExportCSV.
HandleExportCSV ==
  /\ TableShown
  /\ ~ ContinuationDue
  /\ IF Len(schools) = 0
     THEN /\ error' = JStr(MSG_NO_DATA_TO_EXPORT)
          /\ UNCHANGED download
     ELSE \/ /\ download' = Downloaded(FILE_PREFIX \o Sanitize(addressSearched) \o FILE_SUFFIX,
                                       schools)
             /\ error' = JNull
          \/ /\ UNCHANGED download
             /\ error' = JNull
          \/ /\ \E thrown \in ExportThrows :
                  error' = JStr(IF thrown.isError THEN thrown.message ELSE MSG_EXPORT_FAILED)
             /\ UNCHANGED download
  /\ UNCHANGED <<schools, isLoading, addressSearched, address, requests, fetchOutcomes, outsideApp>>

\* onClose of the ErrorMessage.
Dismiss ==
  /\ ErrorShown
  /\ ~ ContinuationDue
  /\ error' = JNull
  /\ UNCHANGED <<schools, isLoading, addressSearched, address, requests, download, fetchOutcomes,
               outsideApp>>

AppNext == ChangeAddress \/ Submit \/ FetchSettles \/ Continue \/ HandleExportCSV \/ Dismiss

AppSpec == AppInit /\ [][AppNext]_vars

\* The external call resolves or rejects in the end, and the continuation of
\* an await runs once its promise has settled.
AppFairSpec == AppSpec /\ WF_vars(FetchSettles) /\ WF_vars(Continue)

-----------------------------------------------------------------------------
(* The properties.  A call has an outcome to speak of once it has settled   *)
(* on a response; the response is the plain JSON text of `sent` when        *)
(* responseText = Stringify(sent).                                          *)

OnResponse == pc = "settled" /\ resolved

PlainArray == OnResponse /\ sent.t = "arr" /\ responseText = Stringify(sent)

OptionalKeys ==
  {KEY_PHONE_NUMBER, KEY_PRINCIPAL_NAME, KEY_ASSISTANT_NAME, KEY_MANAGER_EMAIL,
   KEY_ASSISTANT_EMAIL}

NonEmptyText(v) == v.t = "str" /\ v.s # <<>>

\* The SchoolRecord shape: name, address and type non-empty strings,
\* studentCount a number, the optional fields strings where present.
MatchesShape(item) ==
  /\ item.t = "obj"
  /\ NonEmptyText(Get(item, KEY_NAME))
  /\ NonEmptyText(Get(item, KEY_ADDRESS))
  /\ NonEmptyText(Get(item, KEY_TYPE))
  /\ Get(item, KEY_STUDENT_COUNT).t = "num"
  /\ \A key \in OptionalKeys : Get(item, key).t \in {"str", "undefined"}

\* The record that carries every field of the item as the input has it.
VerbatimRecord(item) ==
  [name           |-> Get(item, KEY_NAME),
   address        |-> Get(item, KEY_ADDRESS),
   type           |-> Get(item, KEY_TYPE),
   studentCount   |-> Get(item, KEY_STUDENT_COUNT),
   phoneNumber    |-> Get(item, KEY_PHONE_NUMBER),
   principalName  |-> Get(item, KEY_PRINCIPAL_NAME),
   assistantName  |-> Get(item, KEY_ASSISTANT_NAME),
   managerEmail   |-> Get(item, KEY_MANAGER_EMAIL),
   assistantEmail |-> Get(item, KEY_ASSISTANT_EMAIL)]

\* C1: identity.  For a valid JSON-array text whose elements all match the
\* SchoolRecord shape, the lenient normalization returns one record per
\* element, in input order, every field equal to the input value verbatim.
C1_Identity ==
  (PlainArray /\ variant # "strict" /\ \A k \in 1..Len(sent.a) : MatchesShape(sent.a[k]))
    => outcome = Returned([k \in 1..Len(sent.a) |-> VerbatimRecord(sent.a[k])])

LacksName(item) == item.t = "obj" /\ Get(item, KEY_NAME) = JUndefined

\* C2: lenient mode drops an entry without a name.  For an array of n
\* objects of which exactly one lacks `name` and the others match the
\* SchoolRecord shape, the lenient normalization returns exactly n - 1
\* records and raises no error.
C2_DropsNameless ==
  (/\ PlainArray
   /\ variant # "strict"
   /\ \E j \in 1..Len(sent.a) :
        /\ LacksName(sent.a[j])
        /\ \A k \in 1..Len(sent.a) : k # j => MatchesShape(sent.a[k]))
    => (~ outcome.threw /\ Len(outcome.value) = Len(sent.a) - 1)

\* The outcome of the call had the response come in a fenced code block,
\* with and without the json tag.
FencedOutcomes ==
  {Normalize(variant, engine, FenceJson(responseText)),
   Normalize(variant, engine, Fence(responseText))}

\* C3 as stated: fence equivalence for every text t, the empty text, white
\* space and a text that is itself a fenced block included: normalizing t in
\* a fenced code block gives the same outcome as normalizing t.
C3_FenceEquivalenceAnyText == OnResponse => FencedOutcomes = {outcome}

\* C3, amended: fence equivalence for every text t that holds more than white
\* space and is not itself a fenced block (stripping a fence leaves the
\* trimmed text as it is): normalizing t in a fenced code block gives the
\* same outcome, the same records or the same failure, as normalizing t.
C3_FenceEquivalence ==
  (/\ OnResponse
   /\ Trim(responseText) # <<>>
   /\ StripFence(Trim(responseText)) = Trim(responseText))
    => FencedOutcomes = {outcome}

\* C3: a plain array of schools was normalized into records, and the fenced
\* response gives the same records.
C3_FencedSameRecords ==
  /\ PlainArray
  /\ ~ outcome.threw
  /\ outcome.value # <<>>
  /\ FencedOutcomes = {outcome}

\* The required fields as the specification has them valid: name, address
\* and type non-empty strings, studentCount a number.
ValidEntry(item) ==
  /\ item.t = "obj"
  /\ NonEmptyText(Get(item, KEY_NAME))
  /\ NonEmptyText(Get(item, KEY_ADDRESS))
  /\ NonEmptyText(Get(item, KEY_TYPE))
  /\ Get(item, KEY_STUDENT_COUNT).t = "num"

\* C4: in lenient mode a per-item validation failure is never an error.
\* For every JSON array, whatever its elements (objects with missing or
\* wrongly typed required fields, null, scalars, nested arrays), the lenient
\* normalization does not raise, and returns as many records as the array
\* has valid entries.
C4_LenientNeverRaises ==
  (PlainArray /\ variant # "strict")
    => (/\ ~ outcome.threw
        /\ Len(outcome.value) = Cardinality({k \in 1..Len(sent.a) : ValidEntry(sent.a[k])}))

\* The required fields of a returned record.
RequiredFields(school) ==
  [name         |-> school.name,
   address      |-> school.address,
   type         |-> school.type,
   studentCount |-> school.studentCount]

\* What strict rejection applied per entry leaves of an array: the elements
\* that pass the strict check, in input order, as the strict callback maps
\* them.
StrictPerEntry(array) ==
  LET passing == SelectSeq(array, LAMBDA item : ~ InvalidCore(item))
  IN  [k \in 1..Len(passing) |-> StrictSchool(passing[k])]

\* C5: lenient mode has the same net effect as strict rejection applied per
\* entry.  For every JSON array of objects, the lenient result consists of
\* exactly the elements that pass the strict check, in input order, with the
\* same required-field values.
C5_LenientIsStrictPerEntry ==
  (/\ PlainArray
   /\ variant # "strict"
   /\ \A k \in 1..Len(sent.a) : sent.a[k].t = "obj")
    => (/\ ~ outcome.threw
        /\ [k \in 1..Len(outcome.value) |-> RequiredFields(outcome.value[k])]
             = StrictPerEntry(sent.a))

OptionalFields ==
  {"phoneNumber", "principalName", "assistantName", "managerEmail", "assistantEmail"}

\* C6: the optional-field invariant.  In every returned record each optional
\* field is a non-empty text or absent; never an empty string, null or a
\* value that is no text.
C6_OptionalFieldsTextOrAbsent ==
  (OnResponse /\ ~ outcome.threw)
    => \A k \in 1..Len(outcome.value) :
         \A f \in OptionalFields \cap DOMAIN outcome.value[k] :
           outcome.value[k][f] = JUndefined \/ NonEmptyText(outcome.value[k][f])

\* A non-negative whole number.
WholeCount(v) == v.t = "num" /\ v.m >= 0 /\ v.e >= 0

\* C7: the studentCount invariant.  Every returned record, of the strict or
\* a lenient build, has a studentCount that is a non-negative whole number;
\* and an array whose elements all have a missing, non-numeric, negative or
\* fractional studentCount yields no record.
C7_StudentCountWhole ==
  (OnResponse /\ ~ outcome.threw)
    => (/\ \A k \in 1..Len(outcome.value) : WholeCount(outcome.value[k].studentCount)
        /\ (sent.t = "arr" /\ responseText = Stringify(sent)
              /\ \A k \in 1..Len(sent.a) : ~ WholeCount(Get(sent.a[k], KEY_STUDENT_COUNT)))
             => outcome.value = <<>>)

\* An element the strict callback does not accept: null, no object, or a
\* required field of the wrong type.
Offending(item) == item.t # "obj" \/ InvalidCore(item)

FirstOffending(array) == Min({k \in 1..Len(array) : Offending(array[k])})

\* C8: strict mode fails the whole batch with the offending index.  For
\* every JSON array with an offending element (null and non-objects
\* included) the strict normalization fails, and the message of its error
\* names the index of the first offending element and the name, address,
\* type and count seen there.
C8_StrictNamesIndex ==
  (/\ PlainArray
   /\ variant = "strict"
   /\ \E k \in 1..Len(sent.a) : Offending(sent.a[k]))
    => (/\ outcome.threw
        /\ Includes(outcome.message,
                    InvalidItemMessage(sent.a[FirstOffending(sent.a)],
                                       FirstOffending(sent.a) - 1)))

\* C9: MalformedJson.  For every response text that is not valid JSON after
\* fence stripping and stray-token repair, normalization fails with an error
\* whose message holds a non-empty excerpt, the first 150 characters of the
\* cleaned text.
C9_MalformedJsonExcerpt ==
  (/\ OnResponse
   /\ responseText # <<>>
   /\ ~ JsonParse(Cleaned(responseText)).ok)
    => (/\ outcome.threw
        /\ Substring0(Cleaned(responseText), EXCERPT_LENGTH) # <<>>
        /\ Includes(outcome.message,
                    MSG_NOT_JSON \o Substring0(Cleaned(responseText), EXCERPT_LENGTH)
                      \o ELLIPSIS))

\* C10: UnexpectedShape.  For every response text that parses as valid JSON
\* to a value that is not an array, normalization fails with the 'not a list
\* of schools' error, whatever the build: no record is returned and no item
\* is mapped.
C10_UnexpectedShape ==
  (/\ OnResponse
   /\ responseText # <<>>
   /\ JsonParse(Cleaned(responseText)).ok
   /\ JsonParse(Cleaned(responseText)).v.t # "arr")
    => outcome = Thrown(MSG_FAILED \o MSG_NOT_A_LIST)

\* C10: the response {"not":"an array"} has been rejected as not a list.
C10_ObjectRejected ==
  /\ OnResponse
  /\ sent = JObj(<<Field(<<"n", "o", "t">>, JStr(<<"a", "n", " ", "a", "r", "r", "a", "y">>))>>)
  /\ responseText = Stringify(sent)
  /\ JsonParse(Cleaned(responseText)).v = sent
  /\ outcome = Thrown(MSG_FAILED \o MSG_NOT_A_LIST)

\* C11: the stray-token repair is idempotent.  For every text s,
\* repair(repair(s)) = repair(s); and what the loop ends with is repair(s).
C11_RepairIdempotent ==
  /\ Repair(Repair(repairInput)) = Repair(repairInput)
  /\ repairPc = "done" => jsonStr = Repair(repairInput)

\* C11: the loop has ended on a text it changed in two passes, and a second
\* repair leaves that text as it is.
C11_RepairedTwiceSame ==
  /\ repairPc = "done"
  /\ passes = 3
  /\ jsonStr # repairInput
  /\ Repair(jsonStr) = jsonStr

NonAsciiCount(s) == Cardinality({k \in 1..Len(s) : IsNonAscii(s[k])})

\* C19: the stray-token repair terminates.  A pass either ends the loop or
\* shortens the text and removes a non-ASCII character, so the passes run so
\* far never outnumber the non-ASCII characters removed, and the loop ends
\* within as many passes as the input has non-ASCII characters, plus one.
C19_RepairTerminates ==
  /\ [](repairPc = "loop" =>
          passes <= NonAsciiCount(repairInput) - NonAsciiCount(jsonStr))
  /\ [](repairPc = "done" => passes <= NonAsciiCount(repairInput) + 1)
  /\ [][repairPc = "loop" =>
          \/ repairPc' = "done" /\ jsonStr' = jsonStr
          \/ /\ Len(jsonStr') < Len(jsonStr)
             /\ NonAsciiCount(jsonStr') < NonAsciiCount(jsonStr)]_vars

\* C19: the loop has ended after two passes that changed the text and one
\* that did not.
C19_EndedAfterThreePasses ==
  /\ repairPc = "done"
  /\ passes = 3
  /\ prevJsonStr = jsonStr
  /\ NonAsciiCount(jsonStr) = NonAsciiCount(repairInput) - 2

\* C12: ConfigurationMissing fails fast.  Without an API key every call of
\* fetchSchoolsNearAddress settles at once with the configuration error, and
\* generateContent is never awaited nor resolved.
C12_ConfigurationMissingFailsFast ==
  /\ [](~ apiKey => (pc # "awaiting" /\ ~ resolved))
  /\ [][(~ apiKey /\ pc = "idle") =>
          (pc' = "settled" /\ outcome' = Thrown(MSG_NOT_CONFIGURED))]_vars

\* C12: a call without an API key has failed with the configuration error.
C12_FailedWithoutKey ==
  /\ ~ apiKey
  /\ pc = "settled"
  /\ ~ resolved
  /\ outcome = Thrown(MSG_NOT_CONFIGURED)

\* Reading CSV back, as RFC 4180 has it: a field that opens with a double
\* quote runs to the first quote that is not the first half of a doubled one,
\* and stands for its content with every doubled quote halved; any other
\* field runs to the next comma or line feed.
QuotesIn(s, a, b) == Cardinality({k \in a..b : s[k] = "\""})

CsvClosingQuote(s, i) ==
  LET Closes(c) == /\ s[c] = "\""
                   /\ QuotesIn(s, i + 1, c) % 2 = 1
                   /\ (c = Len(s) \/ s[c + 1] # "\"")
  IN IF \E c \in (i + 1)..Len(s) : Closes(c)
     THEN CHOOSE c \in (i + 1)..Len(s) : Closes(c) /\ \A d \in (i + 1)..(c - 1) : ~ Closes(d)
     ELSE 0

KeptOfHalving(t) == {k \in 1..Len(t) : ~ (t[k] = "\"" /\ QuotesIn(t, 1, k) % 2 = 0)}

Halve(t) ==
  [n \in 1..Cardinality(KeptOfHalving(t)) |->
     t[CHOOSE k \in KeptOfHalving(t) :
         Cardinality({j \in KeptOfHalving(t) : j < k}) = n - 1]]

\* Removing the enclosing quotes of a cell and halving the doubled ones.
Unquote(cell) == Halve(SubSeq(cell, 2, Len(cell) - 1))

PlainEnd(s, i) ==
  IF \E j \in i..Len(s) : s[j] \in {",", "\n"}
  THEN CHOOSE j \in i..Len(s) : s[j] \in {",", "\n"} /\ \A k \in i..(j - 1) : s[k] \notin {",", "\n"}
  ELSE Len(s) + 1

QuotedField(s, i, c) ==
  IF c = 0 THEN [quoted |-> FALSE, raw |-> SubSeq(s, i, Len(s)), next |-> Len(s) + 1]
  ELSE [quoted |-> TRUE, raw |-> SubSeq(s, i, c), next |-> c + 1]

PlainField(s, i, j) == [quoted |-> FALSE, raw |-> SubSeq(s, i, j - 1), next |-> j]

FieldAt(s, i) ==
  IF i <= Len(s) /\ s[i] = "\"" THEN QuotedField(s, i, CsvClosingQuote(s, i))
  ELSE PlainField(s, i, PlainEnd(s, i))

RECURSIVE ReadRows(_, _, _, _)
ReadAfter(s, f, row, rows) ==
  CASE f.next > Len(s) -> rows \o <<row \o <<f>>>>
    [] f.next <= Len(s) /\ s[f.next] = "," -> ReadRows(s, f.next + 1, row \o <<f>>, rows)
    [] f.next <= Len(s) /\ s[f.next] = "\n" -> ReadRows(s, f.next + 1, <<>>, rows \o <<row \o <<f>>>>)
    [] OTHER -> <<>>

ReadRows(s, i, row, rows) == ReadAfter(s, FieldAt(s, i), row, rows)

ReadCsv(s) == IF s = <<>> THEN <<>> ELSE ReadRows(s, 1, <<>>, <<>>)

\* The value of a field read back.
FieldValue(f) == IF f.quoted THEN Unquote(f.raw) ELSE f.raw

\* Every one of the nine fields of the record is there, a text or a number.
FullyPopulated(row) ==
  \A k \in 1..Len(HEADERS) : RowValue(row, HEADERS[k].key).t \in {"str", "num"}

\* C13 (CSV shape): an empty list converts to the empty text; one fully
\* populated record converts to exactly two rows, the header and the data
\* row, of nine comma-separated fields each, every field of both rows being
\* enclosed in double quotes.
C13_CsvShape ==
  csvPc = "returned" =>
    /\ data = <<>> => csvString = <<>>
    /\ (Len(data) = 1 /\ FullyPopulated(data[1])) =>
         /\ Len(ReadCsv(csvString)) = 2
         /\ \A r \in 1..Len(ReadCsv(csvString)) :
              /\ Len(ReadCsv(csvString)[r]) = 9
              /\ \A k \in 1..Len(ReadCsv(csvString)[r]) : ReadCsv(csvString)[r][k].quoted

\* The cell read back at the place of the text v is v with each double quote
\* doubled inside one pair of quotes, and unquoting it gives v.
CellRoundTrips(f, v) ==
  /\ f.quoted
  /\ f.raw = Cell(JStr(v))
  /\ Len(f.raw) = Len(v) + QuotesIn(v, 1, Len(v)) + 2
  /\ QuotesIn(f.raw, 1, Len(f.raw)) = 2 * QuotesIn(v, 1, Len(v)) + 2
  /\ FieldValue(f) = v

RowsRoundTrip(rows, read) ==
  /\ Len(read) = Len(rows) + 1
  /\ \A r \in 1..Len(rows) :
       /\ Len(read[r + 1]) = Len(HEADERS)
       /\ \A k \in 1..Len(HEADERS) :
            RowValue(rows[r], HEADERS[k].key).t = "str" =>
              CellRoundTrips(read[r + 1][k], RowValue(rows[r], HEADERS[k].key).s)

\* C14 (CSV quoting round-trip): for every field of every record whose value
\* is a text v, the cell is v with each double quote doubled, enclosed in one
\* pair of double quotes; removing the enclosing quotes and halving the
\* doubled ones gives v back, and the cell found at its row and column when
\* the whole output is read back is that very cell.
C14_QuotingRoundTrip ==
  (csvPc = "returned" /\ data # <<>>) => RowsRoundTrip(data, ReadCsv(csvString))

\* C14 witness: a call returned a second data row whose name holds quotes, a
\* comma and a line break, and the name read back is the name put in.
C14_QuotedNameReadBack ==
  /\ csvPc = "returned"
  /\ Len(data) = 2
  /\ data[2].name = JStr(<<"Z", "o", "U+00EB", ";", " ", "\r", "\n", "\"", ",", "\"", "\"">>)
  /\ FieldValue(ReadCsv(csvString)[3][1]) = data[2].name.s
  /\ Len(ReadCsv(csvString)[3][1].raw) = Len(data[2].name.s) + 5

\* C15 (UI consistency): the school table and an error message are never
\* displayed together.
C15_TableAndErrorNeverTogether == ~ (TableShown /\ ErrorShown)

\* A message of a failed search: the three fixed texts, or the prefix of the
\* catch block before the message of what was caught.
FetchFailureMessage(m) ==
  \/ m \in {MSG_NOT_CONFIGURED, MSG_KEY_NOT_VALID, MSG_UNKNOWN_FETCH}
  \/ HasAt(m, 1, MSG_FAILED)

\* C16 (export does not touch fetched data): every handleExportCSV leaves
\* schools and addressSearched as they are, and the message it sets when the
\* export fails is no message of a failed search, every failed search of the
\* model setting one of those.
C16_ExportLeavesData ==
  /\ [][HandleExportCSV =>
          /\ schools' = schools
          /\ addressSearched' = addressSearched
          /\ error' # JNull => ~ FetchFailureMessage(error'.s)]_vars
  /\ [][(Continue /\ error' # error) => FetchFailureMessage(error'.s)]_vars

\* C16 witness: exportToCsv threw, the message of the platform is the error
\* and the list searched for is still there.
C16_ExportFailedListKept ==
  /\ error = JStr(PLATFORM_ERROR)
  /\ Len(schools) = 2
  /\ addressSearched # <<>>
  /\ ~ isLoading

\* C17 (single outstanding request): at most one call of
\* fetchSchoolsNearAddress is in flight, and while one is, isLoading is true
\* and the input and the button of the form are disabled.
C17_SingleOutstandingRequest ==
  /\ Len(requests) <= 1
  /\ requests # <<>> => (isLoading /\ FormDisabled)

\* C17 witness: a search is in flight for the text of the input.
C17_OneInFlight ==
  /\ Len(requests) = 1
  /\ requests[1].status = "awaiting"
  /\ requests[1].address = address
  /\ FormDisabled

\* Empty or white space only.
Blank(text) == \A k \in 1..Len(text) : text[k] \in JsSpace

\* C18 (blank address rejected): a submission of an empty or whitespace-only
\* address starts no call of fetchSchoolsNearAddress and does not enter the
\* loading state; it sets 'Please enter an address.', empties schools and
\* clears addressSearched.
C18_BlankAddressRejected ==
  [][(Submit /\ Blank(address)) =>
       /\ requests' = requests
       /\ ~ isLoading'
       /\ error' = JStr(MSG_ENTER_ADDRESS)
       /\ schools' = <<>>
       /\ addressSearched' = <<>>]_vars

\* C18 witness: a whitespace-only address was submitted after a search.
C18_RejectedWhitespace ==
  /\ address = <<"\t", "U+00A0", " ">>
  /\ error = JStr(MSG_ENTER_ADDRESS)
  /\ schools = <<>>
  /\ addressSearched = <<>>
  /\ requests = <<>>
  /\ ~ isLoading
  /\ download # NoDownload

\* C20 (every accepted search settles in exactly one outcome): a submission
\* of a non-blank address enters the loading state; while it lasts schools is
\* empty and error is null; it ends, and when it ends either schools is the
\* list the call returned and error is null, or error is the message of what
\* the call threw and schools is empty.
C20_SearchSettles ==
  /\ [][(Submit /\ ~ Blank(address)) => (isLoading' /\ Len(requests') = 1)]_vars
  /\ [](isLoading => (schools = <<>> /\ error = JNull /\ Len(requests) = 1))
  /\ [][(isLoading /\ ~ isLoading') =>
          /\ requests[1].status = "settled"
          /\ \/ /\ ~ requests[1].outcome.threw
                /\ schools' = requests[1].outcome.value
                /\ error' = JNull
             \/ /\ requests[1].outcome.threw
                /\ error' # JNull
                /\ Truthy(error')
                /\ schools' = <<>>]_vars
  /\ (isLoading ~> ~ isLoading)

\* C20 witness: a search for a non-blank address ended with the two records
\* the call returned.
C20_SettledWithRecords ==
  /\ ~ isLoading
  /\ requests = <<>>
  /\ addressSearched = <<"1", " ", "M", "a", "i", "n">>
  /\ schools = <<LenientSchool(SCHOOL_FULL, 0), LenientSchool(SCHOOL_CORE, 1)>>
  /\ error = JNull

\* C21 (the invalid-API-key error is for credential failures only): when
\* generateContent resolved, so that a failure of the call comes from the
\* content of the response (malformed JSON, unexpected shape, an invalid
\* entry), the error has the 'Failed to fetch school data from AI. ' prefix
\* before its own message and is never the 'provided Gemini API key is not
\* valid' error, whatever text the response holds.
C21_KeyErrorOnlyForCredential ==
  (OnResponse /\ outcome.threw)
    => (/\ outcome # Thrown(MSG_KEY_NOT_VALID)
        /\ HasAt(outcome.message, 1, MSG_FAILED))

\* C22 (the 'No schools found' message): the message comes up only at the
\* step that completes a search successfully with zero records, for the
\* address of that search; so it is never displayed after a search that
\* ended in an error, whatever is searched, fails or is dismissed.
C22_NoSchoolsOnlyAfterEmptySuccess ==
  [][(~ NoSchoolsShown /\ NoSchoolsShown') =>
       /\ isLoading
       /\ Len(requests) = 1
       /\ requests[1].status = "settled"
       /\ ~ requests[1].outcome.threw
       /\ requests[1].outcome.value = <<>>
       /\ requests[1].address = addressSearched']_vars


=============================================================================
